---- MODULE Spec2Model ----
(***************************************************************************)
(* A model of the WorldGen terrain pipeline: the polygon mesh (polymap),   *)
(* the height map builder with Planchon-Darboux depression filling, the    *)
(* hydrology (flux accumulation, river edges, river paths), the terrain    *)
(* threshold lookup and the ground / vegetation composition vectors.       *)
(*                                                                         *)
(* Numbers.  The program computes on f64.  The model computes on integers: *)
(* one unit of height is 0.00001, so that epsilon (0.001), the sentinel    *)
(* (100.0) and the terrain thresholds (0.5, 0.75, 1.00001) are all whole   *)
(* numbers of units.  A mean is kept as the pair <<total, n>> and compared *)
(* by cross multiplication.  Ids are 1-based here and 0-based in the code. *)
(***************************************************************************)
EXTENDS Integers, Sequences, FiniteSets, TLC

(***************************************************************************)
(* Small helpers on sequences.                                             *)
(***************************************************************************)
Contains(s, x) == \E i \in DOMAIN s : s[i] = x

Range(s) == {s[i] : i \in DOMAIN s}

RECURSIVE SumSeq(_)
SumSeq(s) == IF s = <<>> THEN 0 ELSE Head(s) + SumSeq(Tail(s))

Max(a, b) == IF a > b THEN a ELSE b
Min(a, b) == IF a < b THEN a ELSE b
Abs(a) == IF a < 0 THEN 0 - a ELSE a

RECURSIVE SumOver(_, _)
SumOver(f, S) ==
    IF S = {} THEN 0
    ELSE LET x == CHOOSE y \in S : TRUE IN f[x] + SumOver(f, S \ {x})

\* Vec::sort on a list of ids (selection of the least element, repeatedly).
RECURSIVE SortIds(_)
SortIds(s) ==
    IF s = <<>> THEN <<>>
    ELSE LET m == CHOOSE x \in Range(s) : \A y \in Range(s) : x <= y
             i == CHOOSE k \in DOMAIN s : s[k] = m /\ \A j \in 1..(k - 1) : s[j] # m
         IN  <<m>> \o SortIds(SubSeq(s, 1, i - 1) \o SubSeq(s, i + 1, Len(s)))

(***************************************************************************)
(* polymap: Location, OrderedPair, Vertex, Edge, Cell, PolyMap.            *)
(***************************************************************************)
\* #[derive(PartialOrd)] on Location(f64, f64): lexicographic.
LocationLeq(a, b) == a[1] < b[1] \/ (a[1] = b[1] /\ a[2] <= b[2])

\* the pair as given, without the canonical order
PairOfLocationsAsGiven(a, b) == [min |-> a, max |-> b]

OrderedPairOfLocations(a, b) ==
    IF LocationLeq(a, b) THEN [min |-> a, max |-> b] ELSE [min |-> b, max |-> a]

OrderedPairNew(a, b) ==
    IF a <= b THEN [min |-> a, max |-> b] ELSE [min |-> b, max |-> a]

VertexNew(edge, location, is_border) ==
    [coords |-> location, edges |-> <<edge>>, neighbors |-> <<>>,
     is_border |-> is_border]

\* add_edge that leaves the list as it is
VertexAddEdgeNone(v, id) == v

VertexAddEdge(v, id) ==
    IF Contains(v.edges, id) THEN v
    ELSE [v EXCEPT !.edges = SortIds(Append(v.edges, id))]

EdgeNew(c1, c2) == [endpoints |-> OrderedPairNew(c1, c2), cells |-> <<>>]

EdgeStart(edge) == edge.endpoints.min
EdgeEnd(edge) == edge.endpoints.max

\* add_vertex without the lookup by position: a new record at every call
AddVertexAlways(vertices, edge_id, location, width, height) ==
    [vertices |-> Append(vertices, VertexNew(edge_id, location, FALSE)),
     id |-> Len(vertices) + 1]

\* The closure add_vertex of build_elements.
AddVertex(vertices, edge_id, location, width, height) ==
    IF \E id \in DOMAIN vertices : vertices[id].coords = location
    THEN LET id == CHOOSE k \in DOMAIN vertices : vertices[k].coords = location
         IN  [vertices |-> [vertices EXCEPT ![id] = VertexAddEdge(@, edge_id)],
              id |-> id]
    ELSE LET is_border == \/ location[1] <= 0
                          \/ location[1] >= width
                          \/ location[2] <= 0
                          \/ location[2] >= height
         IN  [vertices |-> Append(vertices, VertexNew(edge_id, location, is_border)),
              id |-> Len(vertices) + 1]

\* The closure add_edge of build_elements: st carries vertices, edges, the
\* edges_lookup table (the key of edge i at position i) and the corner list
\* of the cell under construction; ret is the closure's result.
AddEdge(st, cell_id, line, width, height) ==
    LET endpoints == OrderedPairOfLocations(line[1], line[2])
    IN  IF \E e \in DOMAIN st.edges_lookup : st.edges_lookup[e] = endpoints
        THEN LET edge_id == CHOOSE e \in DOMAIN st.edges_lookup :
                                st.edges_lookup[e] = endpoints
                 edge == st.edges[edge_id]
             IN  [st EXCEPT !.edges[edge_id].cells = Append(@, cell_id),
                            !.cell_corners = @ \o <<edge.endpoints.min,
                                                    edge.endpoints.max>>,
                            !.ret = edge_id]
        ELSE LET edge_id == Len(st.edges) + 1
                 r1 == AddVertex(st.vertices, edge_id, endpoints.min, width, height)
                 r2 == AddVertex(r1.vertices, edge_id, endpoints.max, width, height)
                 edge == [EdgeNew(r1.id, r2.id) EXCEPT !.cells = <<cell_id>>]
             IN  [st EXCEPT !.vertices = r2.vertices,
                            !.edges = Append(@, edge),
                            !.edges_lookup = Append(@, endpoints),
                            !.cell_corners = @ \o <<edge.endpoints.min,
                                                    edge.endpoints.max>>,
                            !.ret = edge_id]

\* polygon.exterior().lines(): the ring is closed, so the last point is
\* joined to the first.
PolygonLines(polygon) ==
    [i \in 1..Len(polygon) |-> <<polygon[i], polygon[(i % Len(polygon)) + 1]>>]

RECURSIVE AddLines(_, _, _, _, _, _)
AddLines(st, cell_id, lines, i, width, height) ==
    IF i > Len(lines) THEN st
    ELSE LET s1 == AddEdge(st, cell_id, lines[i], width, height)
         IN  AddLines([s1 EXCEPT !.cell_edges = Append(@, s1.ret)],
                      cell_id, lines, i + 1, width, height)

CellNew(polygon, edges, corners) ==
    [polygon |-> polygon, edges |-> edges, corners |-> corners]

RECURSIVE AddPolygons(_, _, _, _, _)
AddPolygons(st, polygons, cell_id, width, height) ==
    IF cell_id > Len(polygons) THEN st
    ELSE LET s0 == [st EXCEPT !.cell_edges = <<>>, !.cell_corners = <<>>]
             s1 == AddLines(s0, cell_id, PolygonLines(polygons[cell_id]), 1,
                            width, height)
         IN  AddPolygons([s1 EXCEPT !.cells =
                              Append(@, CellNew(polygons[cell_id], s1.cell_edges,
                                                s1.cell_corners))],
                         polygons, cell_id + 1, width, height)

build_elements(polygons, width, height) ==
    AddPolygons([vertices |-> <<>>, edges |-> <<>>, cells |-> <<>>,
                 edges_lookup |-> <<>>, cell_edges |-> <<>>,
                 cell_corners |-> <<>>, ret |-> 0],
                polygons, 1, width, height)

\* PolyMap::new, "Use the corner edges to get their neighbors".
RECURSIVE VertexNeighbors(_, _, _, _, _)
VertexNeighbors(idx, vedges, edges, i, acc) ==
    IF i > Len(vedges) THEN acc
    ELSE LET edge == edges[vedges[i]]
             other == IF edge.endpoints.min = idx THEN edge.endpoints.max
                      ELSE edge.endpoints.min
         IN  VertexNeighbors(idx, vedges, edges, i + 1,
                             IF Contains(acc, other) THEN acc ELSE Append(acc, other))

VertexFix(v) == [v EXCEPT !.neighbors = SortIds(@), !.edges = SortIds(@)]
EdgeFix(e) == [e EXCEPT !.cells = SortIds(@)]
CellFix(c) == [c EXCEPT !.corners = SortIds(@), !.edges = SortIds(@)]

\* PolyMap::new from the result of build_elements on (the Poisson sampling
\* and the Voronoi construction are external crates and give the polygons).
PolyMapOf(b, width, height) ==
    LET withNeighbors ==
            [idx \in DOMAIN b.vertices |->
                [b.vertices[idx] EXCEPT !.neighbors =
                    VertexNeighbors(idx, b.vertices[idx].edges, b.edges, 1, <<>>)]]
    IN  [width |-> width, height |-> height,
         vertices |-> [idx \in DOMAIN withNeighbors |-> VertexFix(withNeighbors[idx])],
         edges |-> [e \in DOMAIN b.edges |-> EdgeFix(b.edges[e])],
         cells |-> [c \in DOMAIN b.cells |-> CellFix(b.cells[c])]]

PolyMapNew(polygons, width, height) ==
    PolyMapOf(build_elements(polygons, width, height), width, height)

(***************************************************************************)
(* The meshes of the model: small sets of triangles inside a 4 x 4 map.    *)
(* A vertex on the rectangle is a border vertex, any other is interior;    *)
(* every vertex has a neighbor path to a border vertex, as in the clipped  *)
(* Voronoi diagram PolyMap::new builds on.                                 *)
(***************************************************************************)
MapWidth == 4
MapHeight == 4

\* two triangles sharing an edge, both tips on the rectangle
DiamondPolygons ==
    << << <<0, 2>>, <<2, 1>>, <<2, 3>> >>,
       << <<2, 1>>, <<4, 2>>, <<2, 3>> >> >>

\* two triangles sharing an edge, one tip on the rectangle
KitePolygons ==
    << << <<0, 2>>, <<1, 1>>, <<1, 3>> >>,
       << <<1, 1>>, <<2, 2>>, <<1, 3>> >> >>

\* three triangles around an interior vertex
FanPolygons ==
    << << <<2, 2>>, <<0, 1>>, <<4, 1>> >>,
       << <<2, 2>>, <<4, 1>>, <<2, 3>> >>,
       << <<2, 2>>, <<2, 3>>, <<0, 1>> >> >>

PolygonSets == <<DiamondPolygons, KitePolygons, FanPolygons>>

PolyMaps == {PolyMapNew(PolygonSets[m], MapWidth, MapHeight) : m \in DOMAIN PolygonSets}

(***************************************************************************)
(* Option<T>: None is the empty sequence, Some(x) the sequence <<x>>.      *)
(***************************************************************************)
None == <<>>
Some(x) == <<x>>
IsSome(o) == o # <<>>
Unwrap(o) == o[1]

(***************************************************************************)
(* worldgen::heightmap.  Heights are whole numbers of 0.00001.             *)
(***************************************************************************)
\* Self::planchon_darboux(poly_map, &mut self.corners, 0.001)
EPSILON == 100
\* the value new_h starts from off the border, 100.0
SENTINEL == 10000000

\* a start that holds the border above its height
PDInitialRaised(pm, h) ==
    [id \in DOMAIN pm.vertices |->
        IF pm.vertices[id].is_border THEN h[id] + EPSILON ELSE SENTINEL]

\* VertexData::for_each(poly_map, |id, corner| if corner.is_border() { h[id] } else { 100.0 })
PDInitial(pm, h) ==
    [id \in DOMAIN pm.vertices |->
        IF pm.vertices[id].is_border THEN h[id] ELSE SENTINEL]

\* planchon_darboux with an epsilon of 0: a filled corner is level with its
\* neighbor.
RECURSIVE PDNeighborsLevel(_, _, _, _, _, _)
PDNeighborsLevel(h_id, value, neighbors, i, new_h, changed) ==
    IF i > Len(neighbors) THEN [value |-> value, changed |-> changed]
    ELSE IF h_id >= new_h[neighbors[i]]
         THEN [value |-> h_id, changed |-> TRUE]
         ELSE LET oh == new_h[neighbors[i]]
              IN  IF value > oh /\ oh > h_id
                  THEN PDNeighborsLevel(h_id, oh, neighbors, i + 1, new_h, TRUE)
                  ELSE PDNeighborsLevel(h_id, value, neighbors, i + 1, new_h, changed)

\* The loop over corner.neighbors() for one corner of one sweep: value is
\* new_h[id] as the loop leaves it.
RECURSIVE PDNeighbors(_, _, _, _, _, _)
PDNeighbors(h_id, value, neighbors, i, new_h, changed) ==
    IF i > Len(neighbors) THEN [value |-> value, changed |-> changed]
    ELSE IF h_id >= new_h[neighbors[i]] + EPSILON
         THEN [value |-> h_id, changed |-> TRUE]
         ELSE LET oh == new_h[neighbors[i]] + EPSILON
              IN  IF value > oh /\ oh > h_id
                  THEN PDNeighbors(h_id, oh, neighbors, i + 1, new_h, TRUE)
                  ELSE PDNeighbors(h_id, value, neighbors, i + 1, new_h, changed)

\* a corner that differs from its height reports a change at every visit
PDCornerRestless(pm, h, new_h, changed, id) ==
    IF new_h[id] = h[id] THEN [value |-> new_h[id], changed |-> changed]
    ELSE [value |-> PDNeighbors(h[id], new_h[id], pm.vertices[id].neighbors, 1,
                                new_h, changed).value,
          changed |-> TRUE]

\* One corner of one sweep, with the early `continue`.
PDCorner(pm, h, new_h, changed, id) ==
    IF new_h[id] = h[id] THEN [value |-> new_h[id], changed |-> changed]
    ELSE PDNeighbors(h[id], new_h[id], pm.vertices[id].neighbors, 1, new_h, changed)

\* One sweep over the corners from id on.
RECURSIVE PDSweep(_, _, _, _, _)
PDSweep(pm, h, new_h, changed, id) ==
    IF id > Len(pm.vertices) THEN [new_h |-> new_h, changed |-> changed]
    ELSE LET r == PDCorner(pm, h, new_h, changed, id)
         IN  PDSweep(pm, h, [new_h EXCEPT ![id] = r.value], r.changed, id + 1)

\* while changed { changed = false; sweep }
RECURSIVE PDLoop(_, _, _)
PDLoop(pm, h, new_h) ==
    LET s == PDSweep(pm, h, new_h, FALSE, 1)
    IN  IF s.changed THEN PDLoop(pm, h, s.new_h) ELSE s.new_h

\* planchon_darboux as a whole: what the swap leaves in h.
planchon_darboux(pm, h) == PDLoop(pm, h, PDInitial(pm, h))

\* the loop of build keeping the first lower neighbor it meets
RECURSIVE SlopeOfFirst(_, _, _, _, _)
SlopeOfFirst(corners, id, neighbors, i, slope) ==
    IF i > Len(neighbors) THEN slope
    ELSE LET diff == corners[id] - corners[neighbors[i]]
         IN  SlopeOfFirst(corners, id, neighbors, i + 1,
                          IF diff > 0 /\ slope = None
                          THEN Some([towards |-> neighbors[i], intensity |-> diff])
                          ELSE slope)

\* The descent vector of one corner: the loop of build over the neighbors.
RECURSIVE SlopeOf(_, _, _, _, _)
SlopeOf(corners, id, neighbors, i, slope) ==
    IF i > Len(neighbors) THEN slope
    ELSE LET diff == corners[id] - corners[neighbors[i]]
             update == IF slope = None THEN TRUE ELSE Unwrap(slope).intensity < diff
         IN  SlopeOf(corners, id, neighbors, i + 1,
                     IF diff > 0 /\ update
                     THEN Some([towards |-> neighbors[i], intensity |-> diff])
                     ELSE slope)

DescentVector(pm, corners) ==
    [id \in DOMAIN pm.vertices |->
        SlopeOf(corners, id, pm.vertices[id].neighbors, 1, None)]

\* the comparator the other way round
ascending(x, y) ==
    IF x < y THEN "Less" ELSE IF x = y THEN "Equal" ELSE "Greater"

\* The comparator `descending` of build.
descending(x, y) ==
    IF x < y THEN "Greater" ELSE IF x = y THEN "Equal" ELSE "Less"

\* VertexData::ordered_by, called with the comparator `descending`:
\* sort_by(compare, then the ids); the order is total, so position k holds
\* the id that k - 1 ids precede.
ordered_by(data) ==
    LET before(a, b) == \/ descending(data[a], data[b]) = "Less"
                        \/ descending(data[a], data[b]) = "Equal" /\ a < b
        rank(a) == Cardinality({b \in DOMAIN data : before(b, a)})
    IN  [k \in 1..Len(data) |-> CHOOSE a \in DOMAIN data : rank(a) = k - 1]

\* the average that leaves out the last entry of the corner list
vertex_average_short(pm, corners) ==
    [c \in DOMAIN pm.cells |->
        [total |-> SumSeq([k \in 1..(Len(pm.cells[c].corners) - 1) |->
                              corners[pm.cells[c].corners[k]]]),
         n |-> Len(pm.cells[c].corners) - 1]]

\* CellData::vertex_average: total / n over the cell's corner list, kept
\* as the pair [total, n].
vertex_average(pm, corners) ==
    [c \in DOMAIN pm.cells |->
        [total |-> SumSeq([k \in DOMAIN pm.cells[c].corners |->
                              corners[pm.cells[c].corners[k]]]),
         n |-> Len(pm.cells[c].corners)]]

\* What build returns once planchon_darboux has left `corners`.
HeightMapOf(pm, corners) ==
    [corners |-> corners,
     cells |-> vertex_average(pm, corners),
     descent_vector |-> DescentVector(pm, corners),
     downhill |-> ordered_by(corners)]

\* is_descent that does not look where the descent goes
is_descent_anywhere(hm, top, bottom) == IsSome(hm.descent_vector[top])

is_descent(hm, top, bottom) ==
    IF IsSome(hm.descent_vector[top])
    THEN Unwrap(hm.descent_vector[top]).towards = bottom
    ELSE FALSE

edge_high_corner(hm, edge) ==
    LET s == hm.corners[EdgeStart(edge)]
        e == hm.corners[EdgeEnd(edge)]
    IN  IF s > e THEN Some(EdgeStart(edge))
        ELSE IF e > s THEN Some(EdgeEnd(edge))
        ELSE None

\* the pairs (from, towards) in uphill order
uphill_flow(hm) ==
    LET RECURSIVE pairs(_)
        pairs(k) ==
            IF k < 1 THEN <<>>
            ELSE LET from == hm.downhill[k]
                 IN  (IF IsSome(hm.descent_vector[from])
                      THEN << <<from, Unwrap(hm.descent_vector[from]).towards>> >>
                      ELSE <<>>) \o pairs(k - 1)
    IN  pairs(Len(hm.downhill))

\* HeightMap::downhill_flow: the pairs (from, towards) in downhill order.
downhill_flow(hm) ==
    LET RECURSIVE pairs(_)
        pairs(k) ==
            IF k > Len(hm.downhill) THEN <<>>
            ELSE LET from == hm.downhill[k]
                 IN  (IF IsSome(hm.descent_vector[from])
                      THEN << <<from, Unwrap(hm.descent_vector[from]).towards>> >>
                      ELSE <<>>) \o pairs(k + 1)
    IN  pairs(1)

\* DownhillPath::next, with take_while(keep): the iterator yields the node it
\* stands on only if that node has a descent vector, then moves on.
RECURSIVE DownhillPathWhile(_, _, _)
DownhillPathWhile(hm, node, keep) ==
    IF ~IsSome(hm.descent_vector[node]) THEN <<>>
    ELSE IF ~keep[node] THEN <<>>
    ELSE <<node>> \o DownhillPathWhile(hm, Unwrap(hm.descent_vector[node]).towards,
                                       keep)

(***************************************************************************)
(* worldgen::TerrainType and finvec::FinDef: the threshold table.          *)
(* A height is the pair [total, n] (total / n); a plain number has n = 1.  *)
(***************************************************************************)
\* the comparison that is not strict
HeightLe(height, x) == height.total <= x * height.n

Plain(x) == [total |-> x, n |-> 1]

\* height < x
HeightLt(height, x) == height.total < x * height.n

\* TerrainType::LEVELS: 0.0, 0.5, 0.5, 0.75, 1.00001
LEVELS ==
    << [terrain |-> "DeepWater", level |-> 0],
       [terrain |-> "Water",     level |-> 50000],
       [terrain |-> "Land",      level |-> 50000],
       [terrain |-> "Hill",      level |-> 75000],
       [terrain |-> "Mountain",  level |-> 100001] >>

\* iter().enumerate().find_map(|(idx, v)| if tgt < level(v) { Some(idx) } else { None })
FindLevel(data, tgt) ==
    IF \E idx \in DOMAIN data : HeightLt(tgt, data[idx].level)
    THEN Some(CHOOSE idx \in DOMAIN data :
                  /\ HeightLt(tgt, data[idx].level)
                  /\ \A j \in 1..(idx - 1) : ~HeightLt(tgt, data[j].level))
    ELSE None

\* FinDef::idx_from_level: the index found, unwrapped; 0 stands for the
\* panic of unwrap on None (the ids of the model start at 1).
idx_from_level(data, tgt) ==
    LET found == FindLevel(data, tgt)
    IN  IF IsSome(found) THEN Unwrap(found) ELSE 0

idx_from_height(height) == idx_from_level(LEVELS, height)

from_height(height) ==
    LET idx == idx_from_height(height)
    IN  IF idx = 0 THEN "panic" ELSE LEVELS[idx].terrain

is_water(terrain_type) == terrain_type \in {"Water", "DeepWater"}

(***************************************************************************)
(* worldgen::hydrology.                                                    *)
(***************************************************************************)
\* the closure |x, y| *x = *y
Overwrite(x, y) == y

\* the closure |x, y| *x += *y of recompute
Accumulate(x, y) == x + y

\* VertexData::flow, called with the closure of recompute:
\* for (from, to) in order { update(&mut data[to], &data[from]) }
flow(data, order) ==
    LET RECURSIVE go(_, _)
        go(d, k) ==
            IF k > Len(order) THEN d
            ELSE go([d EXCEPT ![order[k][2]] = Accumulate(@, d[order[k][1]])], k + 1)
    IN  go(data, 1)

CornerFlux(hm, corner_rainfall) ==
    flow(corner_rainfall, downhill_flow(hm))

\* the flux of the edge's start corner only
EdgeFluxOfStart(pm, hm, corner_flux) ==
    [e \in DOMAIN pm.edges |->
        IF is_descent(hm, EdgeStart(pm.edges[e]), EdgeEnd(pm.edges[e]))
        THEN corner_flux[EdgeStart(pm.edges[e])] ELSE 0]

EdgeFlux(pm, hm, corner_flux) ==
    [e \in DOMAIN pm.edges |->
        (IF is_descent(hm, EdgeStart(pm.edges[e]), EdgeEnd(pm.edges[e]))
         THEN corner_flux[EdgeStart(pm.edges[e])] ELSE 0)
      + (IF is_descent(hm, EdgeEnd(pm.edges[e]), EdgeStart(pm.edges[e]))
         THEN corner_flux[EdgeEnd(pm.edges[e])] ELSE 0)]

\* the closure with a comparison that is not strict
EdgeIsRiverAtCutoff(pm, terrain, edge_flux, min_river_flux) ==
    [id \in DOMAIN pm.edges |->
        LET water == \E k \in DOMAIN pm.edges[id].cells :
                         is_water(terrain[pm.edges[id].cells[k]])
        IN  ~water /\ edge_flux[id] >= min_river_flux]

\* Rivers::compute, the closure given to EdgeData::from_cell_data.
EdgeIsRiver(pm, terrain, edge_flux, min_river_flux) ==
    [id \in DOMAIN pm.edges |->
        LET water == \E k \in DOMAIN pm.edges[id].cells :
                         is_water(terrain[pm.edges[id].cells[k]])
        IN  ~water /\ edge_flux[id] > min_river_flux]

\* Rivers::compute, the set river_sources.
RiverSources(pm, hm, edge_is_river) ==
    {top \in DOMAIN pm.vertices :
        \E id \in DOMAIN pm.edges :
            /\ edge_is_river[id]
            /\ edge_high_corner(hm, pm.edges[id]) = Some(top)
            /\ \A k \in DOMAIN pm.vertices[top].edges :
                   \/ id = pm.vertices[top].edges[k]
                   \/ ~edge_is_river[pm.vertices[top].edges[k]]}

\* the predicate of take_while: the corner has a river edge
OnRiver(pm, edge_is_river) ==
    [corner \in DOMAIN pm.vertices |->
        \E k \in DOMAIN pm.vertices[corner].edges :
            edge_is_river[pm.vertices[corner].edges[k]]]

\* Rivers::compute, the paths: river_sources.iter().filter_map(..).collect(),
\* in the order `sources` in which the HashSet hands out its elements.
RECURSIVE RiverPaths(_, _, _, _)
RiverPaths(pm, hm, edge_is_river, sources) ==
    IF sources = <<>> THEN <<>>
    ELSE LET path == DownhillPathWhile(hm, Head(sources), OnRiver(pm, edge_is_river))
         IN  (IF path = <<>> THEN <<>> ELSE << [path |-> path] >>)
             \o RiverPaths(pm, hm, edge_is_river, Tail(sources))

\* The orders in which a std HashSet (RandomState) may iterate over S.
IterationOrders(S) ==
    {s \in [1..Cardinality(S) -> S] : \A i, j \in DOMAIN s : i # j => s[i] # s[j]}

RiversCompute(pm, hm, terrain, edge_flux, min_river_flux, sources) ==
    LET edge_is_river == EdgeIsRiver(pm, terrain, edge_flux, min_river_flux)
    IN  [edge_is_river |-> edge_is_river,
         paths |-> RiverPaths(pm, hm, edge_is_river, sources)]

RiverPathSource(p) == p.path[1]
RiverPathSink(p) == p.path[Len(p.path)]

\* Hydrology::recompute on the innate data (min_river_flux, corner_rainfall).
HydrologyRecompute(pm, hm, terrain, min_river_flux, corner_rainfall, sources) ==
    LET corner_flux == CornerFlux(hm, corner_rainfall)
        edge_flux == EdgeFlux(pm, hm, corner_flux)
    IN  [min_river_flux |-> min_river_flux,
         corner_rainfall |-> corner_rainfall,
         cell_rainfall |-> vertex_average(pm, corner_rainfall),
         corner_flux |-> corner_flux,
         edge_flux |-> edge_flux,
         rivers |-> RiversCompute(pm, hm, terrain, edge_flux, min_river_flux, sources)]

\* the sources recompute finds for the given innate data
SourcesOf(pm, hm, terrain, min_river_flux, corner_rainfall) ==
    LET corner_flux == CornerFlux(hm, corner_rainfall)
        edge_flux == EdgeFlux(pm, hm, corner_flux)
    IN  RiverSources(pm, hm, EdgeIsRiver(pm, terrain, edge_flux, min_river_flux))

(***************************************************************************)
(* worldgen::thermology.  An innate temperature is a whole number of       *)
(* 0.01; a derived temperature, the product of an innate temperature and   *)
(* a height-unit factor, is a whole number of 0.0000001.                   *)
(***************************************************************************)
\* Band::new(w / 2, h / 2, 0.0, h / 2).value(x, y), in units of 0.01:
\* (1.0 - |y - h / 2| / (h / 2)).max(0.0)
BandValue(pm, y) == Max(100 - (100 * Abs(2 * y - pm.height)) \div pm.height, 0)

\* ThermologyBuilder: 0.0, + 0.2 * Perlin, + 0.8 * Band
InnateTemperature(pm, perlin) ==
    [id \in DOMAIN pm.vertices |->
        (2 * perlin) \div 10 + (8 * BandValue(pm, pm.vertices[id].coords[2])) \div 10]

\* Vertex::cells: the cells of the corner's edges
VertexCells(pm, id) ==
    UNION {Range(pm.edges[pm.vertices[id].edges[k]].cells) :
              k \in DOMAIN pm.vertices[id].edges}

\* the shells of Thermolgoy::new, left as they are
ThermologyShell(pm, hm, terrain, corner_innate_temperature) ==
    [corner_innate_temperature |-> corner_innate_temperature,
     corner_temperature |-> <<>>,
     cell_temperature |-> <<>>]

\* Thermolgoy::recompute on the innate temperature
ThermologyRecompute(pm, hm, terrain, corner_innate_temperature) ==
    LET corner_temperature ==
            [id \in DOMAIN pm.vertices |->
                LET water == \A cell \in VertexCells(pm, id) : is_water(terrain[cell])
                    temperature == corner_innate_temperature[id]
                IN  IF water THEN Min(temperature * 50000, 4000000)
                    ELSE temperature * Min(150000 - hm.corners[id], 100000)]
    IN  [corner_innate_temperature |-> corner_innate_temperature,
         corner_temperature |-> corner_temperature,
         cell_temperature |-> vertex_average(pm, corner_temperature)]

(***************************************************************************)
(* The pipeline of WorldGenerator::generate as a state machine.            *)
(***************************************************************************)
VARIABLES
    call,        \* the call of a function on its own: arguments and result
    poly_map,    \* the mesh (PolyMap)
    composed,    \* the heights the seeded generators compose for this seed
    generation,  \* how many times generate has been called
    previous,    \* what the previous call of generate returned
    pc,          \* where generate stands
    corners,     \* HeightMapBuilder.corners
    new_h,       \* planchon_darboux: the working elevation
    changed,     \* planchon_darboux: the flag of the sweep
    at,          \* planchon_darboux: the corner the sweep stands on
    heightmap,   \* WorldMap.heightmap
    terrain,     \* WorldMap.terrain
    hydrology,   \* WorldMap.hydrology
    thermology,  \* WorldMap.thermology
    reflows      \* how many times reflow_rivers has been called

vars == <<call, poly_map, composed, generation, previous, pc, corners, new_h, changed, at,
          heightmap, terrain, hydrology, thermology, reflows>>

PM == poly_map
NumVertices == Len(PM.vertices)

\* The heights the generators may have composed on a corner.
HeightTable == <<0, 40, 50000, 75000, 120000, 100>>
NumHeights == 4
HeightVals == {HeightTable[k] : k \in 1..NumHeights}

\* The rainfall the hydrology builder may have composed on a corner, and the
\* configured min_river_flux.
MaxRain == 1
RainVals == 0..MaxRain
Cutoffs == {0 - 1, 0, 1}

NoHeightMap == [corners |-> <<>>, cells |-> <<>>, descent_vector |-> <<>>,
                downhill |-> <<>>]
NoHydrology == [min_river_flux |-> 0, corner_rainfall |-> <<>>,
                cell_rainfall |-> <<>>, corner_flux |-> <<>>, edge_flux |-> <<>>,
                rivers |-> [edge_is_river |-> <<>>, paths |-> <<>>]]
NoThermology == [corner_innate_temperature |-> <<>>, corner_temperature |-> <<>>,
                 cell_temperature |-> <<>>]
NoWorldMap == [heightmap |-> NoHeightMap, terrain |-> <<>>, hydrology |-> NoHydrology,
               thermology |-> NoThermology]

\* The values the Perlin field of the thermology may take, in units of 0.01.
PerlinVals == {0, 10}

NoCall == [name |-> "none"]

Init ==
    /\ call = NoCall
    /\ poly_map \in PolyMaps
    /\ composed \in [1..Len(poly_map.vertices) -> HeightVals]
    /\ generation = 1
    /\ previous = NoWorldMap
    /\ corners = composed
    /\ pc = "build"
    /\ new_h = <<>>
    /\ changed = FALSE
    /\ at = 0
    /\ heightmap = NoHeightMap
    /\ terrain = <<>>
    /\ hydrology = NoHydrology
    /\ thermology = NoThermology
    /\ reflows = 0

\* build enters planchon_darboux: new_h is set up and the first sweep starts.
PDStart ==
    /\ pc = "build"
    /\ new_h' = PDInitial(PM, corners)
    /\ changed' = FALSE
    /\ at' = 1
    /\ pc' = "sweep"
    /\ UNCHANGED <<call, poly_map, composed, generation, previous, corners, heightmap,
                   terrain, hydrology,
                   thermology, reflows>>

\* one corner of the sweep
PDVisit ==
    /\ pc = "sweep"
    /\ at <= NumVertices
    /\ LET r == PDCorner(PM, corners, new_h, changed, at)
       IN  /\ new_h' = [new_h EXCEPT ![at] = r.value]
           /\ changed' = r.changed
    /\ at' = at + 1
    /\ UNCHANGED <<call, poly_map, composed, generation, previous, pc, corners, heightmap,
                   terrain, hydrology,
                   thermology, reflows>>

\* the sweep changed something: while changed { changed = false; ... }
PDSweepAgain ==
    /\ pc = "sweep"
    /\ at > NumVertices
    /\ changed
    /\ changed' = FALSE
    /\ at' = 1
    /\ UNCHANGED <<call, poly_map, composed, generation, previous, pc, corners, new_h,
                   heightmap, terrain, hydrology,
                   thermology, reflows>>

\* a sweep without change: swap(new_h, h), and build goes on to the descent
\* vectors, the cell averages and the downhill order.
BuildFinish ==
    /\ pc = "sweep"
    /\ at > NumVertices
    /\ ~changed
    /\ corners' = new_h
    /\ heightmap' = HeightMapOf(PM, new_h)
    /\ new_h' = <<>>
    /\ at' = 0
    /\ pc' = "terrain"
    /\ UNCHANGED <<call, poly_map, composed, generation, previous, changed, terrain,
                   hydrology,
                   thermology, reflows>>

\* CellData::for_each(poly_map, |id, _| TerrainType::from_height(cell_height(id)));
\* from_height panics on a height no threshold exceeds.
AssignTerrain ==
    /\ pc = "terrain"
    /\ LET t == [c \in DOMAIN PM.cells |-> from_height(heightmap.cells[c])]
       IN  IF \E c \in DOMAIN t : t[c] = "panic"
           THEN /\ pc' = "panic"
                /\ terrain' = terrain
           ELSE /\ pc' = "hydrology"
                /\ terrain' = t
    /\ UNCHANGED <<call, poly_map, composed, generation, previous, corners, new_h, changed,
                   at, heightmap, hydrology,
                   thermology, reflows>>

\* HydrologyBuilder ... build: Hydrology::new(min_river_flux, corner_rainfall)
\* and recompute.  The rainfall and the cutoff are those of the seed and the
\* configuration: a second generation has the ones of the first.
HydrologyBuild ==
    /\ pc = "hydrology"
    /\ \E corner_rainfall \in
           (IF generation = 1 THEN [1..NumVertices -> RainVals]
            ELSE {previous.hydrology.corner_rainfall}),
          min_river_flux \in
           (IF generation = 1 THEN Cutoffs
            ELSE {previous.hydrology.min_river_flux}) :
         \E sources \in IterationOrders(SourcesOf(PM, heightmap, terrain,
                                                  min_river_flux, corner_rainfall)) :
            hydrology' = HydrologyRecompute(PM, heightmap, terrain, min_river_flux,
                                            corner_rainfall, sources)
    /\ pc' = "thermology"
    /\ UNCHANGED <<call, poly_map, composed, generation, previous, corners, new_h, changed,
                   at, heightmap, terrain,
                   thermology, reflows>>

\* ThermologyBuilder ... build: Thermolgoy::new(corner_temperature) and recompute.
ThermologyBuild ==
    /\ pc = "thermology"
    /\ \E innate \in
           (IF generation = 1 THEN {InnateTemperature(PM, perlin) : perlin \in PerlinVals}
            ELSE {previous.thermology.corner_innate_temperature}) :
           thermology' = ThermologyRecompute(PM, heightmap, terrain, innate)
    /\ pc' = "done"
    /\ UNCHANGED <<call, poly_map, composed, generation, previous, corners, new_h, changed,
                   at, heightmap, terrain, hydrology, reflows>>

\* generate is called again with the same configuration, mesh and seed.
GenerateAgain ==
    /\ pc = "done"
    /\ generation = 1
    /\ generation' = 2
    /\ previous' = [heightmap |-> heightmap, terrain |-> terrain,
                    hydrology |-> hydrology, thermology |-> thermology]
    /\ corners' = composed
    /\ pc' = "build"
    /\ heightmap' = NoHeightMap
    /\ terrain' = <<>>
    /\ hydrology' = NoHydrology
    /\ thermology' = NoThermology
    /\ UNCHANGED <<call, poly_map, composed, new_h, changed, at, reflows>>

(***************************************************************************)
(* WorldMap::reflow_rivers and update_heightmap.                           *)
(***************************************************************************)
MaxReflows == 2

\* HeightMap::make_builder: a builder on the current corner elevations
make_builder(hm) == hm.corners

\* hmb.planchon_darboux(poly_map): the filling of build, with its epsilon
builder_planchon_darboux(pm, grid) == planchon_darboux(pm, grid)

\* GridGenerator::add_field with the values v * intensity of the field
add_field(grid, values) == [id \in DOMAIN grid |-> grid[id] + values[id]]

\* The values 0.2 * PerlinField::new(0.0, 0.0, 0.001) may have on the corners
\* of the mesh; the field is the same at every call.
NoiseVals == {0 - 20000, 20000}
NoiseFields(pm) ==
    {[id \in DOMAIN pm.vertices |-> IF id % 2 = 0 THEN d ELSE 0] : d \in NoiseVals}

\* the terrain of generate and of update_heightmap
TerrainOf(pm, hm) == [c \in DOMAIN pm.cells |-> from_height(hm.cells[c])]

\* reflow_rivers enters update_heightmap: the builder is made, the closure
\* adds the field and fills the depressions; build, which fills them again,
\* follows.
ReflowStart ==
    /\ pc = "done"
    /\ reflows < MaxReflows
    /\ reflows' = reflows + 1
    /\ previous' = [heightmap |-> heightmap, terrain |-> terrain,
                    hydrology |-> hydrology, thermology |-> thermology]
    /\ corners' = builder_planchon_darboux(PM,
                       add_field(make_builder(heightmap), call.noise))
    /\ pc' = "build"
    /\ UNCHANGED <<call, poly_map, composed, generation, new_h, changed, at,
                   heightmap, terrain, hydrology, thermology>>

\* update_heightmap leaves the hydrology as it is
ReflowHydrologyKept ==
    /\ pc = "hydrology"
    /\ reflows > 0
    /\ pc' = "thermology"
    /\ UNCHANGED <<call, poly_map, composed, generation, previous, corners, new_h,
                   changed, at, heightmap, terrain, hydrology, thermology, reflows>>

\* self.hydrology.recompute(poly_map, &self.heightmap, &self.terrain)
ReflowHydrology ==
    /\ pc = "hydrology"
    /\ reflows > 0
    /\ \E sources \in IterationOrders(SourcesOf(PM, heightmap, terrain,
                                                hydrology.min_river_flux,
                                                hydrology.corner_rainfall)) :
           hydrology' = HydrologyRecompute(PM, heightmap, terrain,
                                           hydrology.min_river_flux,
                                           hydrology.corner_rainfall, sources)
    /\ pc' = "thermology"
    /\ UNCHANGED <<call, poly_map, composed, generation, previous, corners, new_h,
                   changed, at, heightmap, terrain, thermology, reflows>>

\* self.thermology.recompute(poly_map, &self.heightmap, &self.terrain)
ReflowThermology ==
    /\ pc = "thermology"
    /\ reflows > 0
    /\ thermology' = ThermologyRecompute(PM, heightmap, terrain,
                                         thermology.corner_innate_temperature)
    /\ pc' = "done"
    /\ UNCHANGED <<call, poly_map, composed, generation, previous, corners, new_h,
                   changed, at, heightmap, terrain, hydrology, reflows>>

\* The world maps generate returns: reflow_rivers starts from one of them.
InitReflow ==
    /\ poly_map \in PolyMaps
    /\ composed \in [1..Len(poly_map.vertices) -> HeightVals]
    /\ generation = 1
    /\ previous = NoWorldMap
    /\ corners = planchon_darboux(poly_map, composed)
    /\ new_h = <<>>
    /\ changed = FALSE
    /\ at = 0
    /\ heightmap = HeightMapOf(poly_map, corners)
    /\ terrain = TerrainOf(poly_map, heightmap)
    /\ \A c \in DOMAIN terrain : terrain[c] # "panic"
    /\ \E rain \in RainVals :
         LET corner_rainfall == [id \in DOMAIN poly_map.vertices |-> rain]
         IN  \E sources \in IterationOrders(SourcesOf(poly_map, heightmap, terrain, 0,
                                                      corner_rainfall)) :
                hydrology = HydrologyRecompute(poly_map, heightmap, terrain, 0,
                                               corner_rainfall, sources)
    /\ \E perlin \in PerlinVals :
           thermology = ThermologyRecompute(poly_map, heightmap, terrain,
                                            InnateTemperature(poly_map, perlin))
    /\ \E noise \in NoiseFields(poly_map) :
           call = [name |-> "reflow_rivers", noise |-> noise]
    /\ reflows = 0
    /\ pc = "done"

NextReflow ==
    \/ ReflowStart
    \/ PDStart
    \/ PDVisit
    \/ PDSweepAgain
    \/ BuildFinish
    \/ AssignTerrain
    \/ ReflowHydrology
    \/ ReflowThermology

SpecReflow == InitReflow /\ [][NextReflow]_vars

(***************************************************************************)
(* Notions the properties below are stated with.                           *)
(***************************************************************************)
Built == pc \in {"terrain", "hydrology", "done", "panic"}
Done == pc = "done"
Vertices == DOMAIN PM.vertices
Edges == DOMAIN PM.edges
Cells == DOMAIN PM.cells
IsBorder(v) == PM.vertices[v].is_border
HasDescent(v) == IsSome(heightmap.descent_vector[v])
Target(v) == Unwrap(heightmap.descent_vector[v]).towards
Elevation(v) == heightmap.corners[v]
Position(v) == CHOOSE k \in DOMAIN heightmap.downhill : heightmap.downhill[k] = v

\* The descent chain from v reaches a border vertex without coming back to
\* a vertex of `seen` and without stopping at an interior vertex.
RECURSIVE ChainEndsAtBorder(_, _)
ChainEndsAtBorder(v, seen) ==
    IF v \in seen THEN FALSE
    ELSE IF IsBorder(v) THEN TRUE
    ELSE IF ~HasDescent(v) THEN FALSE
    ELSE ChainEndsAtBorder(Target(v), seen \cup {v})

\* The vertices of the descent chain from v, v included.
RECURSIVE Chain(_, _)
Chain(v, fuel) ==
    IF fuel = 0 \/ ~HasDescent(v) THEN {v}
    ELSE {v} \cup Chain(Target(v), fuel - 1)

Upstream(v) == {u \in Vertices : v \in Chain(u, NumVertices)}
Terminals == {v \in Vertices : ~HasDescent(v)}

C2_DownhillIsTopologicalOrder ==
    Built =>
        /\ Len(heightmap.downhill) = NumVertices
        /\ Range(heightmap.downhill) = Vertices
        /\ \A u \in Vertices :
               HasDescent(u) =>
                   /\ Elevation(u) > Elevation(Target(u))
                   /\ Position(u) < Position(Target(u))

\* a descent edge from a larger id to a smaller one, and two vertices of
\* equal elevation
C2_Witness ==
    /\ Built
    /\ \E u \in Vertices : HasDescent(u) /\ Target(u) < u
    /\ \E u, v \in Vertices : u # v /\ Elevation(u) = Elevation(v)

(***************************************************************************)
(* C3.  After recompute the flux of a vertex is its own rainfall plus the  *)
(* final flux of every vertex that descends to it; equivalently its        *)
(* rainfall plus that of every vertex whose descent chain passes there.    *)
(***************************************************************************)
C3_FluxIsRainfallPlusUpstream ==
    Done =>
        \A v \in Vertices :
            /\ hydrology.corner_flux[v] =
                   hydrology.corner_rainfall[v]
                   + SumOver(hydrology.corner_flux,
                             {u \in Vertices : HasDescent(u) /\ Target(u) = v})
            /\ hydrology.corner_flux[v] =
                   SumOver(hydrology.corner_rainfall, Upstream(v))

\* a vertex fed by a chain of two vertices, all three with rain
C3_Witness ==
    /\ Done
    /\ \E u, v, w \in Vertices :
           /\ HasDescent(u) /\ Target(u) = v
           /\ HasDescent(v) /\ Target(v) = w
           /\ hydrology.corner_rainfall[u] > 0
           /\ hydrology.corner_rainfall[v] > 0
           /\ hydrology.corner_rainfall[w] > 0
           /\ hydrology.corner_flux[w] >= 3

(***************************************************************************)
(* C4.  Flux accumulation is conservative: the rainfall summed over all    *)
(* vertices equals the flux summed over the vertices without descent edge. *)
(***************************************************************************)
C4_FluxIsConserved ==
    Done =>
        SumOver(hydrology.corner_rainfall, Vertices)
            = SumOver(hydrology.corner_flux, Terminals)

\* rain fell on every vertex and two vertices are terminal
C4_Witness ==
    /\ Done
    /\ \A v \in Vertices : hydrology.corner_rainfall[v] > 0
    /\ Cardinality(Terminals) = 2
    /\ \E u, v \in Vertices :
           u # v /\ HasDescent(u) /\ HasDescent(v) /\ Target(u) = Target(v)

(***************************************************************************)
(* C5.  The flux of an edge is the sum of the vertex flux of each endpoint *)
(* whose descent target is the other endpoint, 0 if there is none.         *)
(***************************************************************************)
C5_EdgeFlux ==
    Done =>
        \A e \in Edges :
            LET a == PM.edges[e].endpoints.min
                b == PM.edges[e].endpoints.max
                into == {x \in {a, b} :
                            HasDescent(x) /\ Target(x) \in {a, b} \ {x}}
            IN  /\ hydrology.edge_flux[e] = SumOver(hydrology.corner_flux, into)
                /\ into = {} => hydrology.edge_flux[e] = 0

\* an edge the larger endpoint descends across, one the smaller endpoint
\* descends across, and one no endpoint descends across
C5_Witness ==
    /\ Done
    /\ \E e \in Edges :
           /\ HasDescent(PM.edges[e].endpoints.max)
           /\ Target(PM.edges[e].endpoints.max) = PM.edges[e].endpoints.min
           /\ hydrology.edge_flux[e] > 0
    /\ \E e \in Edges :
           /\ HasDescent(PM.edges[e].endpoints.min)
           /\ Target(PM.edges[e].endpoints.min) = PM.edges[e].endpoints.max
           /\ hydrology.edge_flux[e] > 0
    /\ \E e \in Edges :
           /\ ~is_descent(heightmap, PM.edges[e].endpoints.min, PM.edges[e].endpoints.max)
           /\ ~is_descent(heightmap, PM.edges[e].endpoints.max, PM.edges[e].endpoints.min)

RiverEdges == {e \in Edges : hydrology.rivers.edge_is_river[e]}
EdgesBetween(a, b) ==
    {e \in Edges : {PM.edges[e].endpoints.min, PM.edges[e].endpoints.max} = {a, b}}
CellsOf(e) == {PM.edges[e].cells[k] : k \in DOMAIN PM.edges[e].cells}

(***************************************************************************)
(* C6.  An edge is a river edge exactly when its flux is strictly above    *)
(* the cutoff and it is not fully bounded by water cells, that is, at      *)
(* least one owning cell is not water; so an edge between a water cell and *)
(* a land cell with flux above the cutoff is a river edge.                 *)
(***************************************************************************)
C6_RiverEdgeUnlessAllWater ==
    Done =>
        \A e \in Edges :
            hydrology.rivers.edge_is_river[e]
                <=> /\ hydrology.edge_flux[e] > hydrology.min_river_flux
                    /\ \E c \in CellsOf(e) : ~is_water(terrain[c])

\* The first k + 1 vertices of the descent chain from v.
RECURSIVE ChainFrom(_, _)
ChainFrom(v, k) ==
    IF k = 0 \/ ~HasDescent(v) THEN <<v>>
    ELSE <<v>> \o ChainFrom(Target(v), k - 1)

\* The river edges are exactly the edges of the channel
\* v, Target(v), ..., k descent steps long.
SingleChannel(v, k) ==
    LET ch == ChainFrom(v, k)
    IN  /\ k >= 1
        /\ Len(ch) = k + 1
        /\ RiverEdges = UNION {EdgesBetween(ch[i], ch[i + 1]) : i \in 1..k}

(***************************************************************************)
(* C7.  When the river edges form a single channel v0 -> v1 -> ... -> vk   *)
(* (each the descent target of the one before, every edge between them a   *)
(* river edge, no other river edge), recompute produces exactly one river  *)
(* path, with source v0 and sink vk.                                       *)
(***************************************************************************)
C7_SingleChannelOnePath ==
    Done =>
        \A v \in Vertices, k \in 1..(NumVertices - 1) :
            SingleChannel(v, k) =>
                /\ Len(hydrology.rivers.paths) = 1
                /\ RiverPathSource(hydrology.rivers.paths[1]) = v
                /\ RiverPathSink(hydrology.rivers.paths[1]) = ChainFrom(v, k)[k + 1]

(***************************************************************************)
(* C8.  generate is deterministic: called twice with the same              *)
(* configuration, mesh and seed it gives the same heights, the same flux   *)
(* and the same river paths in the same order.                             *)
(***************************************************************************)
C8_GenerateIsDeterministic ==
    (generation = 2 /\ Done) =>
        /\ heightmap.corners = previous.heightmap.corners
        /\ hydrology.corner_flux = previous.hydrology.corner_flux
        /\ hydrology.edge_flux = previous.hydrology.edge_flux
        /\ hydrology.rivers.paths = previous.hydrology.rivers.paths

(***************************************************************************)
(* The terrain lookup on its own: FinDef::idx_from_level and               *)
(* TerrainType::from_height on a table of levels and a height.             *)
(***************************************************************************)
MaxLevels == 2

\* The tables: TerrainType::LEVELS, and the monotonic tables of at most
\* MaxLevels of its entries.
LevelTables ==
    {LEVELS} \cup
    {t \in UNION {[1..n -> Range(LEVELS)] : n \in 1..MaxLevels} :
        \A i, j \in DOMAIN t : i < j => t[i].level <= t[j].level}

NoPolyMap == [vertices |-> <<>>, edges |-> <<>>, cells |-> <<>>]

\* generate is not running
Idle ==
    /\ poly_map = NoPolyMap
    /\ composed = <<>>
    /\ generation = 0
    /\ previous = NoWorldMap
    /\ corners = <<>>
    /\ new_h = <<>>
    /\ changed = FALSE
    /\ at = 0
    /\ heightmap = NoHeightMap
    /\ terrain = <<>>
    /\ hydrology = NoHydrology
    /\ thermology = NoThermology
    /\ reflows = 0

InitTerrain ==
    /\ Idle
    /\ pc = "lookup"
    /\ \E data \in LevelTables, height \in HeightVals :
           call = [name |-> "idx_from_level", data |-> data,
                   tgt |-> Plain(height), idx |-> 0]

\* the lookup returns or panics
TerrainLookup ==
    /\ pc = "lookup"
    /\ LET idx == idx_from_level(call.data, call.tgt)
       IN  /\ call' = [call EXCEPT !.idx = idx]
           /\ pc' = IF idx = 0 THEN "lookup_panic" ELSE "lookup_returned"
    /\ UNCHANGED <<poly_map, composed, generation, previous, corners, new_h,
                   changed, at, heightmap, terrain, hydrology,
                   thermology, reflows>>

NextTerrain == TerrainLookup

SpecTerrain == InitTerrain /\ [][NextTerrain]_vars

\* the entries of the table whose threshold the height is strictly below
Above == {i \in DOMAIN call.data : call.tgt.total < call.data[i].level * call.tgt.n}
\* the entries of the table whose threshold the height equals
Level == {i \in DOMAIN call.data : call.tgt.total = call.data[i].level * call.tgt.n}

(***************************************************************************)
(* C9.  The terrain lookup returns the smallest index i with               *)
(* height < threshold[i], the comparison being strict: a height equal to   *)
(* a threshold resolves to the entry right above that threshold, and past  *)
(* both of two equal thresholds.  (It returns when some threshold exceeds  *)
(* the height, and only then.)                                             *)
(***************************************************************************)
C9_TerrainLookup ==
    /\ pc = "lookup_returned" =>
           /\ call.idx \in Above
           /\ \A i \in Above : call.idx <= i
           /\ \A i \in Level : call.idx > i
           /\ Level # {} =>
                  call.idx = 1 + CHOOSE i \in Level : \A j \in Level : j <= i
    /\ pc = "lookup_panic" => Above = {}

\* the height equals two thresholds of LEVELS, and the lookup went past both
C9_Witness ==
    /\ pc = "lookup_returned"
    /\ call.data = LEVELS
    /\ Cardinality(Level) = 2
    /\ LEVELS[call.idx].terrain = "Hill"

(***************************************************************************)
(* world::biome.  Numbers are whole thousandths; a composition is kept as  *)
(* its numerators over the common denominator den.                         *)
(***************************************************************************)
RAIN == [min |-> 0, max |-> 50000]
DRAIN == [min |-> 0, max |-> 1000]

\* Measure::normalize: (x - min) / (max - min)
MeasureNormalize(measure, x) ==
    ((x - measure.min) * 1000) \div (measure.max - measure.min)

\* Ground::normalize
GroundNormalize(self) ==
    LET total == self.water + self.sand + self.soil + self.rock
    IN  IF total = 0 THEN self
        ELSE [water |-> self.water, sand |-> self.sand, soil |-> self.soil,
              rock |-> self.rock, den |-> total]

\* Ground::new; the raw components are over 5 * 1000 * 1000
GroundNew(terrain_category, rain, drain, height) ==
    IF terrain_category = "Sea"
    THEN [water |-> 1, sand |-> 0, soil |-> 0, rock |-> 0, den |-> 1]
    ELSE LET wetness == Min(MeasureNormalize(DRAIN, drain), 1000)
                        + MeasureNormalize(RAIN, rain)
         IN  GroundNormalize(
                 [water |-> 0,
                  sand |-> Max(1000 - wetness, 0) * Max(1000 - height, 0),
                  soil |-> 5000 * wetness,
                  rock |-> 1000 * height,
                  den |-> 5000000])

\* Vegetation::default
VegetationDefault == [none |-> 1, deciduous |-> 0, boreal |-> 0, den |-> 1]

\* Vegetation::normalize
VegetationNormalize(self) ==
    LET total == self.none + self.deciduous + self.boreal
    IN  IF total = 0 THEN self
        ELSE [none |-> self.none, deciduous |-> self.deciduous,
              boreal |-> self.boreal, den |-> total]

\* Vegetation::new; the raw components are over 1000 * 1000
VegetationNew(terrain_category, rain, temperature, height) ==
    IF terrain_category = "Sea" THEN VegetationDefault
    ELSE VegetationNormalize(
             [none |-> 1000 * Max(1000 - MeasureNormalize(RAIN, rain), 0),
              deciduous |->
                  IF height > 800 THEN 0
                  ELSE 10 * 1000 * (300 - Min(Abs(500 - temperature), 300)),
              boreal |->
                  IF height > 900 THEN 0
                  ELSE 10 * (300 * 1000 - Min(Abs(200 - temperature), 300) * height),
              den |-> 1000000])

\* The inputs of the biome: rainfall, and the fractions drainage, height and
\* temperature.
RainTable == <<0, 25000, 50000, 75000>>
NumRains == 3
FractionTable == <<0, 500, 950, 1000, 200>>
NumFractions == 3
TerrainCategories == {"Sea", "Coast", "Land"}

InitBiome ==
    /\ Idle
    /\ pc = "ground"
    /\ \E terrain_category \in TerrainCategories,
          rain \in {RainTable[k] : k \in 1..NumRains},
          drain, height, temperature \in {FractionTable[k] : k \in 1..NumFractions} :
           call = [name |-> "biome", terrain_category |-> terrain_category,
                   rain |-> rain, drain |-> drain, height |-> height,
                   temperature |-> temperature,
                   ground |-> None, vegetation |-> None]

\* *ground = Ground::new(terrain_category, rainfall, drainage, height)
BiomeGround ==
    /\ pc = "ground"
    /\ call' = [call EXCEPT !.ground =
                    Some(GroundNew(call.terrain_category, call.rain, call.drain,
                                   call.height))]
    /\ pc' = "vegetation"
    /\ UNCHANGED <<poly_map, composed, generation, previous, corners, new_h,
                   changed, at, heightmap, terrain, hydrology,
                   thermology, reflows>>

\* *vegetation = Vegetation::new(terrain_category, rainfall, temperature, height)
BiomeVegetation ==
    /\ pc = "vegetation"
    /\ call' = [call EXCEPT !.vegetation =
                    Some(VegetationNew(call.terrain_category, call.rain,
                                       call.temperature, call.height))]
    /\ pc' = "biome"
    /\ UNCHANGED <<poly_map, composed, generation, previous, corners, new_h,
                   changed, at, heightmap, terrain, hydrology,
                   thermology, reflows>>

NextBiome == BiomeGround \/ BiomeVegetation

SpecBiome == InitBiome /\ [][NextBiome]_vars

(***************************************************************************)
(* C10.  For every terrain category, rainfall, drainage, height and        *)
(* temperature the components of the Ground that Ground::new returns sum   *)
(* to 1, and so do the components of the Vegetation that Vegetation::new   *)
(* returns, also when every component is zero before the normalization.    *)
(***************************************************************************)
C10_CompositionsSumToOne ==
    /\ pc \in {"vegetation", "biome"} =>
           LET g == Unwrap(call.ground)
           IN  g.water + g.sand + g.soil + g.rock = g.den
    /\ pc = "biome" =>
           LET v == Unwrap(call.vegetation)
           IN  v.none + v.deciduous + v.boreal = v.den

(***************************************************************************)
(* The composition of the heights in generate: HeightMapBuilder::new(0.),  *)
(* the slopes, three relaxations, build.  The configuration has the Perlin *)
(* intensities at 0 and no clumps nor depressions, so those fields add     *)
(* nothing.  A slope intensity of 0.54 keeps every relaxed height a whole  *)
(* number of units on meshes whose vertices have two or three neighbors.   *)
(***************************************************************************)
MaxSlopes == 2

\* conf.slopes.intensity, halved: Slope::value is computed on doubled coordinates
HalfSlopeIntensity == 27000

\* rng.gen_range(-100..200) as f64 / 100.0
SlopeVals == {0 - 1, 0, 1}

\* Slope::value at the vertex, times the intensity:
\* ((x - w / 2) * m - (y - h / 2)) * intensity
SlopeField(pm, m) ==
    [id \in DOMAIN pm.vertices |->
        ((2 * pm.vertices[id].coords[1] - pm.width) * m
            - (2 * pm.vertices[id].coords[2] - pm.height)) * HalfSlopeIntensity]

\* HeightMapBuilder::relax(poly_map, 0.2): 0.2 * (sum / n) + 0.8 * x, every
\* vertex reading the values of before the pass
relax(pm, grid) ==
    [id \in DOMAIN pm.vertices |->
        LET neighborhood == pm.vertices[id].neighbors
            average == SumSeq([k \in DOMAIN neighborhood |-> grid[neighborhood[k]]])
            n == Len(neighborhood)
        IN  (average \div n + 4 * grid[id]) \div 5]

InitCompose ==
    /\ poly_map \in PolyMaps
    /\ \E number \in 0..MaxSlopes :
           call = [name |-> "generate", slopes |-> number, relaxed |-> 0]
    /\ corners = [id \in DOMAIN poly_map.vertices |-> 0]
    /\ composed = <<>>
    /\ generation = 1
    /\ previous = NoWorldMap
    /\ pc = "compose"
    /\ new_h = <<>>
    /\ changed = FALSE
    /\ at = 0
    /\ heightmap = NoHeightMap
    /\ terrain = <<>>
    /\ hydrology = NoHydrology
    /\ thermology = NoThermology
    /\ reflows = 0

\* one turn of the loop over the slopes
AddSlope ==
    /\ pc = "compose"
    /\ call.slopes > 0
    /\ \E m \in SlopeVals : corners' = add_field(corners, SlopeField(PM, m))
    /\ call' = [call EXCEPT !.slopes = @ - 1]
    /\ UNCHANGED <<poly_map, composed, generation, previous, pc, new_h, changed, at,
                   heightmap, terrain, hydrology, thermology, reflows>>

\* one turn of the loop of relaxations; build follows the third
Relax ==
    /\ pc = "compose"
    /\ call.slopes = 0
    /\ corners' = relax(PM, corners)
    /\ call' = [call EXCEPT !.relaxed = @ + 1]
    /\ pc' = IF call.relaxed = 2 THEN "build" ELSE "compose"
    /\ composed' = IF call.relaxed = 2 THEN corners' ELSE composed
    /\ UNCHANGED <<poly_map, generation, previous, new_h, changed, at,
                   heightmap, terrain, hydrology, thermology, reflows>>

NextCompose ==
    \/ AddSlope
    \/ Relax
    \/ PDStart
    \/ PDVisit
    \/ PDSweepAgain
    \/ BuildFinish
    \/ AssignTerrain

SpecCompose == InitCompose /\ [][NextCompose]_vars

(***************************************************************************)
(* C14.  In the heightmap build returns in generate, every vertex          *)
(* elevation lies in [0, 1], hence so does every cell height, and the      *)
(* terrain lookup finds every cell height below the last threshold.        *)
(***************************************************************************)
C14_ElevationsNormalized ==
    /\ pc # "panic"
    /\ heightmap # NoHeightMap =>
          /\ \A v \in Vertices : 0 <= heightmap.corners[v] /\ heightmap.corners[v] <= 100000
          /\ \A c \in Cells :
                /\ 0 <= heightmap.cells[c].total
                /\ heightmap.cells[c].total <= 100000 * heightmap.cells[c].n

(***************************************************************************)
(* HeightMapBuilder::normalize on its own (GridGenerator::normalize and    *)
(* Field::normalize of polymap compute the same expression).  An f64       *)
(* quotient is the record [nan, num, den]: num / den when the divisor is   *)
(* not zero, NaN for 0.0 / 0.0, and a signed infinity (den = 0) otherwise. *)
(***************************************************************************)
MaxField == 3

\* f64 division
F64Div(a, b) ==
    IF b # 0 THEN [nan |-> FALSE, num |-> a, den |-> b]
    ELSE IF a = 0 THEN [nan |-> TRUE, num |-> 0, den |-> 0]
    ELSE [nan |-> FALSE, num |-> a, den |-> 0]

RECURSIVE ReduceMin(_)
ReduceMin(data) ==
    IF Len(data) = 1 THEN data[1] ELSE Min(data[1], ReduceMin(Tail(data)))

RECURSIVE ReduceMax(_)
ReduceMax(data) ==
    IF Len(data) = 1 THEN data[1] ELSE Max(data[1], ReduceMax(Tail(data)))

\* *x = (*x - min) / (max - min)
normalize(data) ==
    LET min == ReduceMin(data)
        max == ReduceMax(data)
    IN  [i \in DOMAIN data |-> F64Div(data[i] - min, max - min)]

InitNormalize ==
    /\ Idle
    /\ pc = "normalize"
    /\ \E n \in 1..MaxField : \E data \in [1..n -> HeightVals] :
           call = [name |-> "normalize", data |-> data, result |-> <<>>]

Normalize ==
    /\ pc = "normalize"
    /\ call' = [call EXCEPT !.result = normalize(call.data)]
    /\ pc' = "normalized"
    /\ UNCHANGED <<poly_map, composed, generation, previous, corners, new_h,
                   changed, at, heightmap, terrain, hydrology,
                   thermology, reflows>>

NextNormalize == Normalize

SpecNormalize == InitNormalize /\ [][NextNormalize]_vars

(***************************************************************************)
(* C15.  Normalizing a field whose values are all equal divides by no      *)
(* zero, produces no invalid value and leaves every value as it was.       *)
(***************************************************************************)
C15_FlatFieldIsLeftAlone ==
    (pc = "normalized" /\ \A i, j \in DOMAIN call.data : call.data[i] = call.data[j]) =>
        \A i \in DOMAIN call.result :
            /\ ~call.result[i].nan
            /\ call.result[i].den # 0
            /\ call.result[i].num = call.data[i] * call.result[i].den

(***************************************************************************)
(* planchon_darboux on its own, as build runs it, on every height field    *)
(* over the height table and two heights above the 100.0 the filling       *)
(* starts interior corners from, on the meshes of the pipeline and on a    *)
(* mesh without any border vertex.  The loop is sequential code: it takes  *)
(* its next step whenever it has one.                                      *)
(***************************************************************************)
\* one triangle off the rectangle: no vertex has a path to a border vertex
IsletPolygons == << << <<1, 1>>, <<2, 1>>, <<1, 2>> >> >>

FillMaps == PolyMaps \cup {PolyMapNew(IsletPolygons, MapWidth, MapHeight)}

\* 100.0005 and 100.001
FillHeights == HeightVals \cup {SENTINEL + EPSILON \div 2, SENTINEL + EPSILON}

InitFill ==
    /\ call = NoCall
    /\ poly_map \in FillMaps
    /\ composed \in [1..Len(poly_map.vertices) -> FillHeights]
    /\ generation = 1
    /\ previous = NoWorldMap
    /\ corners = composed
    /\ pc = "build"
    /\ new_h = <<>>
    /\ changed = FALSE
    /\ at = 0
    /\ heightmap = NoHeightMap
    /\ terrain = <<>>
    /\ hydrology = NoHydrology
    /\ thermology = NoThermology
    /\ reflows = 0

NextFill ==
    \/ PDStart
    \/ PDVisit
    \/ PDSweepAgain
    \/ BuildFinish

SpecFill == InitFill /\ [][NextFill]_vars /\ WF_vars(NextFill)

\* the vertices a neighbor path joins to a border vertex
RECURSIVE ReachesBorder(_)
ReachesBorder(S) ==
    LET T == S \cup {v \in Vertices : \E k \in DOMAIN PM.vertices[v].neighbors :
                                         PM.vertices[v].neighbors[k] \in S}
    IN  IF T = S THEN S ELSE ReachesBorder(T)

Stranded == Vertices \ ReachesBorder({v \in Vertices : IsBorder(v)})

(***************************************************************************)
(* C17.  planchon_darboux terminates on every mesh and every height field: *)
(* a sweep without change comes after finitely many sweeps, also when      *)
(* interior vertices have no neighbor path to a border vertex.             *)
(***************************************************************************)
C17_FillTerminates == <>(pc = "terrain")

\* the filling has returned on a mesh with stranded vertices, which it
\* left at the 100.0 they started from
C17_Witness ==
    /\ pc = "terrain"
    /\ Stranded # {}
    /\ \E v \in Stranded : composed[v] < SENTINEL /\ heightmap.corners[v] = SENTINEL

\* the filling has returned after lowering an interior vertex to a level
\* above its height
C17_WitnessFilled ==
    /\ pc = "terrain"
    /\ \E v \in Vertices :
          /\ ~IsBorder(v)
          /\ composed[v] < heightmap.corners[v]
          /\ heightmap.corners[v] < SENTINEL

(***************************************************************************)
(* C18.  Throughout planchon_darboux the working elevation of every vertex *)
(* never rises and is never below the vertex's height, border vertices     *)
(* hold their height from the start, and the field the filling returns is  *)
(* at least the input everywhere and equal to it on the border.            *)
(***************************************************************************)
C18_WorkingElevationBounded ==
    /\ [](pc = "sweep" =>
            \A v \in Vertices :
               /\ new_h[v] >= corners[v]
               /\ IsBorder(v) => new_h[v] = corners[v])
    /\ [](pc = "terrain" =>
            \A v \in Vertices :
               /\ heightmap.corners[v] >= composed[v]
               /\ IsBorder(v) => heightmap.corners[v] = composed[v])
    /\ [][(pc = "sweep" /\ pc' = "sweep") =>
             \A v \in Vertices : new_h'[v] <= new_h[v]]_vars

\* the neighbors of a vertex
NeighborsOf(v) == Range(PM.vertices[v].neighbors)

(***************************************************************************)
(* C19.  build records a descent edge for a vertex exactly when one of its *)
(* neighbors is strictly lower; the target is then a neighbor of minimum   *)
(* elevation and the intensity is the elevation of the vertex minus that   *)
(* of the target, a positive number.  Otherwise the vertex has no descent. *)
(***************************************************************************)
C19_DescentIsSteepest ==
    pc = "terrain" =>
        \A v \in Vertices :
           /\ HasDescent(v) <=> \E u \in NeighborsOf(v) : Elevation(u) < Elevation(v)
           /\ HasDescent(v) =>
                 /\ Target(v) \in NeighborsOf(v)
                 /\ \A u \in NeighborsOf(v) : Elevation(Target(v)) <= Elevation(u)
                 /\ Unwrap(heightmap.descent_vector[v]).intensity
                        = Elevation(v) - Elevation(Target(v))
                 /\ Unwrap(heightmap.descent_vector[v]).intensity > 0

\* a vertex whose first neighbor is lower and whose target is a later, still
\* lower one, next to a vertex without descent
C19_Witness ==
    /\ pc = "terrain"
    /\ \E v \in Vertices :
          /\ HasDescent(v)
          /\ Elevation(PM.vertices[v].neighbors[1]) < Elevation(v)
          /\ Elevation(Target(v)) < Elevation(PM.vertices[v].neighbors[1])
    /\ \E v \in Vertices : ~HasDescent(v) /\ NeighborsOf(v) # {}

\* the vertices on the points of the cell's polygon
IncidentVertices(c) ==
    {v \in Vertices : \E k \in DOMAIN PM.cells[c].polygon :
                         PM.cells[c].polygon[k] = PM.vertices[v].coords}

(***************************************************************************)
(* C20.  The elevation of a cell is the arithmetic mean of the elevations  *)
(* of its distinct incident vertices: the stored corner list, which holds  *)
(* both endpoints of every bounding edge, has at least one entry and does  *)
(* not weigh one vertex more than another.                                 *)
(***************************************************************************)
C20_CellElevationIsVertexMean ==
    heightmap # NoHeightMap =>
        \A c \in Cells :
           /\ heightmap.cells[c].n >= 1
           /\ IncidentVertices(c) = Range(PM.cells[c].corners)
           /\ heightmap.cells[c].total * Cardinality(IncidentVertices(c))
                  = SumOver(heightmap.corners, IncidentVertices(c)) * heightmap.cells[c].n

\* a cell whose corner list is longer than its set of vertices, on three
\* vertices of three different elevations
C20_Witness ==
    /\ heightmap # NoHeightMap
    /\ \E c \in Cells :
          /\ Len(PM.cells[c].corners) > Cardinality(IncidentVertices(c))
          /\ Cardinality({heightmap.corners[v] : v \in IncidentVertices(c)}) = 3
          /\ heightmap.cells[c].total # 0

(***************************************************************************)
(* VertexData::update_with_neighbors on its own, vertex by vertex, with    *)
(* the closure of relax(poly_map, 0.2).  The heights drawn are multiples   *)
(* of 0.3, which one relaxation over two or three neighbors keeps whole.   *)
(***************************************************************************)
RelaxVals == {0, 30000, 60000}

\* the closure of relax on one vertex: t * (average / n) + (1.0 - t) * *x,
\* the neighborhood read from buf
RelaxOne(x, buf) == (SumSeq(buf) \div Len(buf) + 4 * x) \div 5

InitRelax ==
    /\ poly_map \in PolyMaps
    /\ corners \in [1..Len(poly_map.vertices) -> RelaxVals]
    /\ call = [name |-> "update_with_neighbors", read_data |-> corners, id |-> 1]
    /\ pc = "update_with_neighbors"
    /\ composed = <<>>
    /\ generation = 0
    /\ previous = NoWorldMap
    /\ new_h = <<>>
    /\ changed = FALSE
    /\ at = 0
    /\ heightmap = NoHeightMap
    /\ terrain = <<>>
    /\ hydrology = NoHydrology
    /\ thermology = NoThermology
    /\ reflows = 0

\* the turn of the loop that reads the neighbors in the data being written
RelaxVisitInPlace ==
    /\ pc = "update_with_neighbors"
    /\ call.id <= NumVertices
    /\ LET neighbors == PM.vertices[call.id].neighbors
           buf == [k \in DOMAIN neighbors |-> corners[neighbors[k]]]
       IN  corners' = [corners EXCEPT ![call.id] = RelaxOne(@, buf)]
    /\ call' = [call EXCEPT !.id = @ + 1]
    /\ UNCHANGED <<poly_map, composed, generation, previous, pc, new_h, changed, at,
                   heightmap, terrain, hydrology, thermology, reflows>>

\* one turn of the loop over poly_map.vertices(): buf is filled from
\* read_data, f writes self.data[id]
RelaxVisit ==
    /\ pc = "update_with_neighbors"
    /\ call.id <= NumVertices
    /\ LET neighbors == PM.vertices[call.id].neighbors
           buf == [k \in DOMAIN neighbors |-> call.read_data[neighbors[k]]]
       IN  corners' = [corners EXCEPT ![call.id] = RelaxOne(@, buf)]
    /\ call' = [call EXCEPT !.id = @ + 1]
    /\ UNCHANGED <<poly_map, composed, generation, previous, pc, new_h, changed, at,
                   heightmap, terrain, hydrology, thermology, reflows>>

\* the loop is over
RelaxReturn ==
    /\ pc = "update_with_neighbors"
    /\ call.id > NumVertices
    /\ pc' = "updated_with_neighbors"
    /\ UNCHANGED <<call, poly_map, composed, generation, previous, corners, new_h,
                   changed, at, heightmap, terrain, hydrology, thermology, reflows>>

NextRelax == RelaxVisit \/ RelaxReturn

SpecRelax == InitRelax /\ [][NextRelax]_vars

(***************************************************************************)
(* C21.  update_with_neighbors is one synchronous sweep: the value it      *)
(* leaves on a vertex is computed from the values the vertex and its       *)
(* neighbors had before the sweep, whatever has been written in the sweep  *)
(* so far; vertices not yet visited still hold their value of before.      *)
(***************************************************************************)
C21_SweepReadsSnapshot ==
    pc \in {"update_with_neighbors", "updated_with_neighbors"} =>
        \A v \in Vertices :
           LET before == call.read_data
               n == Cardinality(NeighborsOf(v))
           IN  IF v < call.id
               THEN 5 * n * corners[v] = SumOver(before, NeighborsOf(v)) + 4 * n * before[v]
               ELSE corners[v] = before[v]

\* the sweep is over; a vertex has been written after one of its neighbors
\* had been changed in the same sweep, and has changed itself
C21_Witness ==
    /\ pc = "updated_with_neighbors"
    /\ \E v \in Vertices : \E u \in NeighborsOf(v) :
          /\ u < v
          /\ corners[u] # call.read_data[u]
          /\ corners[v] # call.read_data[v]

(***************************************************************************)
(* The bracketing lookups of the renderer on their own:                    *)
(* TerrainType::from_height_range on TerrainType::LEVELS, and              *)
(* FinDef::from_level_range on a table of levels.  The results are kept as *)
(* the indices of the two entries (from_height_range returns their terrain *)
(* types, from_level_range the keys made of the indices) and t as the      *)
(* quotient num / den of the f32 division.                                 *)
(***************************************************************************)
RangeHeights == HeightVals \cup {0 - 12500, 25000, 62500}

One == [num |-> 1, den |-> 1]

\* t of from_height_range, from the two entries and the height
RangeT(low, high, height) ==
    IF is_water(low.terrain) # is_water(high.terrain)
    THEN One
    ELSE LET n == high.level - low.level
         IN  IF n = 0
             THEN One
             ELSE [num |-> height.total - low.level * height.n,
                   den |-> n * height.n]

\* the same without the rule of the coast
RangeTPlain(low, high, height) ==
    LET n == high.level - low.level
    IN  IF n = 0
        THEN One
        ELSE [num |-> height.total - low.level * height.n,
              den |-> n * height.n]

\* TerrainType::from_height_range.  high_idx - 1 is a subtraction of usize:
\* at the first entry it panics in a build with overflow checks and wraps
\* in a build without them, where get returns None and low is LEVELS[0].
from_height_range(height, overflow_checks) ==
    LET high_idx == idx_from_height(height)
    IN  IF high_idx = 0
        THEN [panic |-> TRUE, low |-> 0, high |-> 0, t |-> One]
        ELSE IF high_idx = 1 /\ overflow_checks
        THEN [panic |-> TRUE, low |-> 0, high |-> 0, t |-> One]
        ELSE LET low_idx == IF high_idx = 1 THEN 1 ELSE high_idx - 1
             IN  [panic |-> FALSE, low |-> low_idx, high |-> high_idx,
                  t |-> RangeT(LEVELS[low_idx], LEVELS[high_idx], height)]

\* FinDef::from_level_range: low_idx = high_idx.saturating_sub(1)
from_level_range(data, tgt) ==
    LET high_idx == idx_from_level(data, tgt)
    IN  IF high_idx = 0
        THEN [panic |-> TRUE, low |-> 0, high |-> 0, t |-> One]
        ELSE LET low_idx == IF high_idx = 1 THEN 1 ELSE high_idx - 1
             IN  [panic |-> FALSE, low |-> low_idx, high |-> high_idx,
                  t |-> RangeTPlain(data[low_idx], data[high_idx], tgt)]

NoRange == [panic |-> FALSE, low |-> 0, high |-> 0, t |-> One]

InitRange ==
    /\ Idle
    /\ pc = "range"
    /\ \/ \E height \in RangeHeights, overflow_checks \in BOOLEAN :
              call = [name |-> "from_height_range", data |-> LEVELS,
                      tgt |-> Plain(height),
                      overflow_checks |-> overflow_checks,
                      result |-> NoRange]
       \/ \E data \in LevelTables, height \in RangeHeights :
              call = [name |-> "from_level_range", data |-> data,
                      tgt |-> Plain(height), overflow_checks |-> FALSE,
                      result |-> NoRange]

\* TerrainType::from_height_range returns or panics
FromHeightRange ==
    /\ pc = "range"
    /\ call.name = "from_height_range"
    /\ LET r == from_height_range(call.tgt, call.overflow_checks)
       IN  /\ call' = [call EXCEPT !.result = r]
           /\ pc' = IF r.panic THEN "range_panic" ELSE "range_returned"
    /\ UNCHANGED <<poly_map, composed, generation, previous, corners, new_h,
                   changed, at, heightmap, terrain, hydrology,
                   thermology, reflows>>

\* FinDef::from_level_range returns or panics
FromLevelRange ==
    /\ pc = "range"
    /\ call.name = "from_level_range"
    /\ LET r == from_level_range(call.data, call.tgt)
       IN  /\ call' = [call EXCEPT !.result = r]
           /\ pc' = IF r.panic THEN "range_panic" ELSE "range_returned"
    /\ UNCHANGED <<poly_map, composed, generation, previous, corners, new_h,
                   changed, at, heightmap, terrain, hydrology,
                   thermology, reflows>>

NextRange == FromHeightRange \/ FromLevelRange

SpecRange == InitRange /\ [][NextRange]_vars

\* the lookup has returned or panicked
RangeOver == pc \in {"range_returned", "range_panic"}

(***************************************************************************)
(* C22.  For every height below the top threshold the bracketing lookup    *)
(* returns (low, high, t): high is the first entry whose threshold the     *)
(* height is strictly below, low is the entry before it (where there is    *)
(* one), t = 1 when low and high differ in their water classification or   *)
(* have equal thresholds, and otherwise                                    *)
(* t = (height - low threshold) / (high threshold - low threshold).        *)
(***************************************************************************)
C22_RangeBracketsTheHeight ==
    (RangeOver /\ Above # {}) =>
        /\ pc = "range_returned"
        /\ LET r == call.result
               hi == CHOOSE i \in Above : \A j \in Above : i <= j
               lo == IF hi = 1 THEN 1 ELSE hi - 1
               low == call.data[lo]
               high == call.data[hi]
           IN  /\ r.high = hi
               /\ hi > 1 => r.low = hi - 1
               /\ IF \/ is_water(low.terrain) # is_water(high.terrain)
                     \/ low.level = high.level
                  THEN r.t.num = r.t.den
                  ELSE /\ r.t.num = call.tgt.total - low.level * call.tgt.n
                       /\ r.t.den = (high.level - low.level) * call.tgt.n

\* the same for TerrainType::from_height_range in a build without overflow
\* checks
C22_HoldsWhereSubtractionWraps ==
    (call.name = "from_height_range" /\ ~call.overflow_checks) =>
        C22_RangeBracketsTheHeight

\* a height below the first threshold, in a build with overflow checks
C22_PanicBelowFirstThreshold ==
    /\ pc = "range_panic"
    /\ call.name = "from_height_range"
    /\ Above = DOMAIN call.data

\* a coast the generic lookup interpolates across
C22_CoastInterpolated ==
    /\ pc = "range_returned"
    /\ call.name = "from_level_range"
    /\ call.result.low # call.result.high
    /\ is_water(call.data[call.result.low].terrain)
           # is_water(call.data[call.result.high].terrain)
    /\ call.result.t.num # call.result.t.den

\* the river edges on the list of edges of the vertex
RiverEdgesAt(v) == Range(PM.vertices[v].edges) \cap RiverEdges

\* v is the strictly higher endpoint of a river edge and has no other one
IsRiverSource(v) ==
    \E e \in RiverEdges :
        /\ \E u \in Vertices :
               /\ {EdgeStart(PM.edges[e]), EdgeEnd(PM.edges[e])} = {u, v}
               /\ Elevation(v) > Elevation(u)
        /\ RiverEdgesAt(v) \subseteq {e}

\* the elements of a path: non-empty, from a source, each the descent
\* target of the one before it, each with a river edge
RiverPathFollowsDescent(p) ==
    /\ p.path # <<>>
    /\ IsRiverSource(RiverPathSource(p))
    /\ \A i \in 1..(Len(p.path) - 1) :
           /\ HasDescent(p.path[i])
           /\ p.path[i + 1] = Target(p.path[i])
    /\ \A i \in DOMAIN p.path : RiverEdgesAt(p.path[i]) # {}

\* the path stops where the descent chain has no vertex left or the next
\* one has no river edge
RiverPathEndsOffRiver(p) ==
    HasDescent(RiverPathSink(p)) =>
        RiverEdgesAt(Target(RiverPathSink(p))) = {}

(***************************************************************************)
(* C23.  Every river path of recompute is non-empty, starts at a river     *)
(* source (the strictly higher endpoint of a river edge, with no other     *)
(* river edge), goes on to the descent target of each element, and ends    *)
(* the first time the vertex of the descent chain it has come to has no    *)
(* river edge; so every vertex of a path has a river edge.                 *)
(***************************************************************************)
C23_RiverPathsFollowTheRiver ==
    Done =>
        \A k \in DOMAIN hydrology.rivers.paths :
            /\ RiverPathFollowsDescent(hydrology.rivers.paths[k])
            /\ RiverPathEndsOffRiver(hydrology.rivers.paths[k])

\* the part of C23 that does not depend on where the path ends
C23_ElementsFollowDescent ==
    Done =>
        \A k \in DOMAIN hydrology.rivers.paths :
            RiverPathFollowsDescent(hydrology.rivers.paths[k])

\* a path that stops in front of a vertex with a river edge
C23_StopsOnTheRiver ==
    /\ Done
    /\ \E k \in DOMAIN hydrology.rivers.paths :
           ~RiverPathEndsOffRiver(hydrology.rivers.paths[k])

\* the descent edge of a is the edge to b
DescendsTo(a, b) == HasDescent(a) /\ Target(a) = b

(***************************************************************************)
(* C25.  Of the two endpoints a, b of an edge at most one descends to the  *)
(* other: is_descent(a, b) and is_descent(b, a) are never both true.  The  *)
(* flux of the edge is then the accumulated flux of the one endpoint that  *)
(* descends along it, and 0 when neither does.                             *)
(***************************************************************************)
C25_EdgeCarriesOneEndpoint ==
    Done =>
        \A e \in Edges :
            LET a == EdgeStart(PM.edges[e])
                b == EdgeEnd(PM.edges[e])
            IN  /\ ~(is_descent(heightmap, a, b) /\ is_descent(heightmap, b, a))
                /\ hydrology.edge_flux[e] =
                       IF DescendsTo(a, b) THEN hydrology.corner_flux[a]
                       ELSE IF DescendsTo(b, a) THEN hydrology.corner_flux[b]
                       ELSE 0

\* an edge that carries the flux of its start, the end holding more, one
\* that carries the flux of its end, and an edge that no endpoint descends
\* along between two vertices with flux
C25_Witness ==
    /\ Done
    /\ \E e \in Edges :
           LET a == EdgeStart(PM.edges[e])
               b == EdgeEnd(PM.edges[e])
           IN  /\ DescendsTo(a, b)
               /\ hydrology.corner_flux[a] > 0
               /\ hydrology.corner_flux[b] > hydrology.corner_flux[a]
    /\ \E e \in Edges :
           LET a == EdgeStart(PM.edges[e])
               b == EdgeEnd(PM.edges[e])
           IN  /\ DescendsTo(b, a)
               /\ hydrology.corner_flux[b] > 0
    /\ \E e \in Edges :
           LET a == EdgeStart(PM.edges[e])
               b == EdgeEnd(PM.edges[e])
           IN  /\ ~DescendsTo(a, b) /\ ~DescendsTo(b, a)
               /\ hydrology.corner_flux[a] > 0
               /\ hydrology.corner_flux[b] > 0

(***************************************************************************)
(* C26.  With a cutoff that is not negative every river edge is a descent  *)
(* edge: its endpoints differ in elevation and the higher one descends to  *)
(* the lower one.  So every river source has a descent vector and is the   *)
(* first vertex of a river path.                                           *)
(***************************************************************************)
C26_RiverEdgesAreDescentEdges ==
    (Done /\ hydrology.min_river_flux >= 0) =>
        /\ \A e \in RiverEdges :
               LET a == EdgeStart(PM.edges[e])
                   b == EdgeEnd(PM.edges[e])
               IN  /\ Elevation(a) # Elevation(b)
                   /\ Elevation(a) > Elevation(b) => DescendsTo(a, b)
                   /\ Elevation(b) > Elevation(a) => DescendsTo(b, a)
        /\ \A v \in Vertices :
               IsRiverSource(v) =>
                   /\ HasDescent(v)
                   /\ \E k \in DOMAIN hydrology.rivers.paths :
                          RiverPathSource(hydrology.rivers.paths[k]) = v

\* a river under a cutoff of 0 or more, with its source, and an edge with
\* flux that is not a river edge
C26_Witness ==
    /\ Done
    /\ hydrology.min_river_flux >= 0
    /\ hydrology.rivers.paths # <<>>
    /\ \E v \in Vertices : IsRiverSource(v)
    /\ \E e \in Edges \ RiverEdges : hydrology.edge_flux[e] > 0

\* a cutoff below 0: a river edge without descent
C26_NegativeCutoff ==
    /\ Done
    /\ hydrology.min_river_flux < 0
    /\ \E e \in RiverEdges :
           /\ ~DescendsTo(EdgeStart(PM.edges[e]), EdgeEnd(PM.edges[e]))
           /\ ~DescendsTo(EdgeEnd(PM.edges[e]), EdgeStart(PM.edges[e]))

(***************************************************************************)
(* C27.  planchon_darboux is idempotent: applied to the heights it has     *)
(* returned it returns them unchanged, so that a second filling (that of   *)
(* build after the one of reflow_rivers) does not move any height.         *)
(***************************************************************************)
C27_FillIsIdempotent ==
    pc = "terrain" => planchon_darboux(PM, corners) = corners

\* the filling has raised an interior vertex out of a depression, kept
\* another at its height, and left a vertex at the sentinel
C27_Witness ==
    /\ pc = "terrain"
    /\ \E v \in Vertices : ~IsBorder(v) /\ corners[v] > composed[v]
    /\ \E v \in Vertices : ~IsBorder(v) /\ corners[v] = composed[v]
                              /\ corners[v] # SENTINEL
    /\ planchon_darboux(PM, corners) = corners

\* the same on a mesh with vertices no path joins to the border and on
\* heights above the sentinel
C27_WitnessSentinel ==
    /\ pc = "terrain"
    /\ \E v \in Vertices : ~IsBorder(v) /\ corners[v] = SENTINEL
                              /\ composed[v] > SENTINEL

(***************************************************************************)
(* Hydrology::recompute and Thermolgoy::recompute called again on a world  *)
(* map generate has returned, against the heightmap and the terrain it     *)
(* holds.                                                                  *)
(***************************************************************************)
MaxRecomputes == 1

\* the rainfall of the maps: the same on every corner, or on one corner only
RainFields(pm) ==
    {[id \in DOMAIN pm.vertices |-> IF wet = 0 \/ id = wet THEN rain ELSE 0] :
        wet \in 0..Len(pm.vertices), rain \in RainVals}

InitRecompute ==
    /\ poly_map \in PolyMaps
    /\ composed \in [1..Len(poly_map.vertices) -> HeightVals]
    /\ generation = 1
    /\ previous = NoWorldMap
    /\ corners = planchon_darboux(poly_map, composed)
    /\ new_h = <<>>
    /\ changed = FALSE
    /\ at = 0
    /\ heightmap = HeightMapOf(poly_map, corners)
    /\ terrain = TerrainOf(poly_map, heightmap)
    /\ \A c \in DOMAIN terrain : terrain[c] # "panic"
    /\ \E corner_rainfall \in RainFields(poly_map),
          min_river_flux \in Cutoffs :
         \E sources \in IterationOrders(SourcesOf(poly_map, heightmap, terrain,
                                                  min_river_flux, corner_rainfall)) :
            hydrology = HydrologyRecompute(poly_map, heightmap, terrain,
                                           min_river_flux, corner_rainfall, sources)
    /\ \E perlin \in PerlinVals :
           thermology = ThermologyRecompute(poly_map, heightmap, terrain,
                                            InnateTemperature(poly_map, perlin))
    /\ call = [name |-> "recompute", runs |-> 0]
    /\ reflows = 0
    /\ pc = "done"

\* recompute that lets the flux flow into the flux it holds
RecomputeHydrologyOnFlux ==
    /\ pc = "done"
    /\ call.runs < MaxRecomputes
    /\ previous' = [heightmap |-> heightmap, terrain |-> terrain,
                    hydrology |-> hydrology, thermology |-> thermology]
    /\ \E sources \in IterationOrders(SourcesOf(PM, heightmap, terrain,
                                                hydrology.min_river_flux,
                                                hydrology.corner_flux)) :
           hydrology' = [HydrologyRecompute(PM, heightmap, terrain,
                                            hydrology.min_river_flux,
                                            hydrology.corner_flux, sources)
                            EXCEPT !.corner_rainfall = hydrology.corner_rainfall]
    /\ pc' = "recompute_thermology"
    /\ UNCHANGED <<call, poly_map, composed, generation, corners, new_h,
                   changed, at, heightmap, terrain, thermology, reflows>>

\* hydrology.recompute(poly_map, &heightmap, &terrain) on the hydrology as
\* the last recompute has left it
RecomputeHydrology ==
    /\ pc = "done"
    /\ call.runs < MaxRecomputes
    /\ previous' = [heightmap |-> heightmap, terrain |-> terrain,
                    hydrology |-> hydrology, thermology |-> thermology]
    /\ \E sources \in IterationOrders(SourcesOf(PM, heightmap, terrain,
                                                hydrology.min_river_flux,
                                                hydrology.corner_rainfall)) :
           hydrology' = HydrologyRecompute(PM, heightmap, terrain,
                                           hydrology.min_river_flux,
                                           hydrology.corner_rainfall, sources)
    /\ pc' = "recompute_thermology"
    /\ UNCHANGED <<call, poly_map, composed, generation, corners, new_h,
                   changed, at, heightmap, terrain, thermology, reflows>>

\* thermology.recompute(poly_map, &heightmap, &terrain), likewise
RecomputeThermology ==
    /\ pc = "recompute_thermology"
    /\ thermology' = ThermologyRecompute(PM, heightmap, terrain,
                                         thermology.corner_innate_temperature)
    /\ call' = [call EXCEPT !.runs = @ + 1]
    /\ pc' = "done"
    /\ UNCHANGED <<poly_map, composed, generation, previous, corners, new_h,
                   changed, at, heightmap, terrain, hydrology, reflows>>

NextRecompute == RecomputeHydrology \/ RecomputeThermology

SpecRecompute == InitRecompute /\ [][NextRecompute]_vars

(***************************************************************************)
(* C28.  recompute leaves the innate data (the rainfall, the cutoff, the   *)
(* innate temperature) as they are and makes the derived data anew: a      *)
(* recompute that follows another against the same heightmap and terrain   *)
(* gives the flux, the river edges, the rainfall of the cells and the      *)
(* temperatures the one before it gave.                                    *)
(***************************************************************************)
C28_RecomputeTwiceIsOnce ==
    (pc = "done" /\ call.runs >= 1) =>
        /\ hydrology.corner_rainfall = previous.hydrology.corner_rainfall
        /\ hydrology.min_river_flux = previous.hydrology.min_river_flux
        /\ thermology.corner_innate_temperature
               = previous.thermology.corner_innate_temperature
        /\ hydrology.corner_flux = previous.hydrology.corner_flux
        /\ hydrology.edge_flux = previous.hydrology.edge_flux
        /\ hydrology.cell_rainfall = previous.hydrology.cell_rainfall
        /\ hydrology.rivers.edge_is_river = previous.hydrology.rivers.edge_is_river
        /\ thermology.corner_temperature = previous.thermology.corner_temperature
        /\ thermology.cell_temperature = previous.thermology.cell_temperature

\* a recompute after the one of generate, on a map where the flux has
\* gathered downhill, some edge is a river and some corner is warm
C28_Witness ==
    /\ pc = "done"
    /\ call.runs = 1
    /\ \E v \in Vertices : hydrology.corner_flux[v] > hydrology.corner_rainfall[v]
    /\ \E e \in Edges : hydrology.rivers.edge_is_river[e]
    /\ \E v \in Vertices : thermology.corner_temperature[v] > 0

(***************************************************************************)
(* polymap::painter: the validation state of the Painter's texture under   *)
(* invalidate and draw.  The record `call` holds the painter (validation), *)
(* the last call (name, the validation before it, its argument, whether    *)
(* draw_all ran) and whether an invalidation is pending: whether, since    *)
(* the last draw, the painter was made or invalidate was called with an    *)
(* argument other than Valid.                                              *)
(***************************************************************************)
MaxIds == 1

Valid == [kind |-> "Valid"]
Invalid == [kind |-> "Invalid"]
Partial(elements) == [kind |-> "Partial", elements |-> elements]

ElementSets ==
    [cells : SUBSET (1..MaxIds), edges : SUBSET (1..MaxIds),
     corners : SUBSET (1..MaxIds)]

Validations == {Valid, Invalid} \cup {Partial(e) : e \in ElementSets}

\* join_set: for &x in s2 { s1.insert(x) }
join_set(s1, s2) == s1 \cup s2

\* ElementSet::join
ElementSetJoin(self, other) ==
    [cells |-> join_set(self.cells, other.cells),
     edges |-> join_set(self.edges, other.edges),
     corners |-> join_set(self.corners, other.corners)]

is_valid(self) == self.kind = "Valid"

\* join that leaves a valid texture valid
ValidationJoinKeepsValid(self, other) ==
    IF self.kind = "Valid" THEN self
    ELSE IF self.kind = "Invalid" THEN self
    ELSE IF other.kind = "Invalid" THEN Invalid
    ELSE IF other.kind = "Valid" THEN self
    ELSE Partial(ElementSetJoin(self.elements, other.elements))

\* Validation::join: what it leaves in self
ValidationJoin(self, other) ==
    IF self.kind = "Valid" THEN other
    ELSE IF self.kind = "Invalid" THEN self
    ELSE IF other.kind = "Invalid" THEN Invalid
    ELSE IF other.kind = "Valid" THEN self
    ELSE Partial(ElementSetJoin(self.elements, other.elements))

\* Painter::new
InitPainter ==
    /\ Idle
    /\ pc = "painter"
    /\ call = [name |-> "new", validation |-> Invalid, before |-> Invalid,
               other |-> Invalid, repainted |-> FALSE, pending |-> TRUE]

\* Painter::invalidate
PainterInvalidate ==
    /\ pc = "painter"
    /\ \E validation \in Validations :
           call' = [name |-> "invalidate",
                    validation |-> ValidationJoin(call.validation, validation),
                    before |-> call.validation,
                    other |-> validation,
                    repainted |-> FALSE,
                    pending |-> (call.pending \/ validation # Valid)]
    /\ UNCHANGED <<poly_map, composed, generation, previous, pc, corners, new_h,
                   changed, at, heightmap, terrain, hydrology,
                   thermology, reflows>>

\* Painter::draw: draw_all unless the texture is valid
PainterDraw ==
    /\ pc = "painter"
    /\ call' = [name |-> "draw",
                validation |-> IF ~is_valid(call.validation) THEN Valid
                               ELSE call.validation,
                before |-> call.validation,
                other |-> Valid,
                repainted |-> ~is_valid(call.validation),
                pending |-> FALSE]
    /\ UNCHANGED <<poly_map, composed, generation, previous, pc, corners, new_h,
                   changed, at, heightmap, terrain, hydrology,
                   thermology, reflows>>

NextPainter == PainterInvalidate \/ PainterDraw

SpecPainter == InitPainter /\ [][NextPainter]_vars

(***************************************************************************)
(* C29.  The painter never loses an invalidation.  join: Valid joined with *)
(* x is x, Invalid stays Invalid and makes a Partial Invalid, two Partials *)
(* give the Partial of the union of their sets, a Partial joined with      *)
(* Valid stays as it is.  So while an invalidation is pending the texture  *)
(* is not valid; a draw repaints exactly when the texture is not valid,    *)
(* hence whenever an invalidation is pending and never in state Valid, and *)
(* leaves the state Valid.                                                 *)
(***************************************************************************)
C29_NoInvalidationIsLost ==
    pc = "painter" =>
        /\ call.name = "invalidate" =>
               /\ call.before = Valid => call.validation = call.other
               /\ call.before = Invalid => call.validation = Invalid
               /\ call.before.kind = "Partial" =>
                      /\ call.other = Invalid => call.validation = Invalid
                      /\ call.other = Valid => call.validation = call.before
                      /\ call.other.kind = "Partial" =>
                             /\ call.validation.kind = "Partial"
                             /\ \A f \in {"cells", "edges", "corners"} :
                                    call.validation.elements[f] =
                                        call.before.elements[f]
                                            \cup call.other.elements[f]
        /\ call.pending => call.validation # Valid
        /\ call.name = "draw" =>
               /\ call.validation = Valid
               /\ call.repainted <=> call.before # Valid

\* a draw that repaints a texture two invalidations have made Partial with
\* the sets of both, the first on a valid texture
C29_Witness ==
    /\ pc = "painter"
    /\ call.name = "draw"
    /\ call.repainted
    /\ call.before.kind = "Partial"
    /\ call.before.elements.cells # {}
    /\ call.before.elements.edges # {}

\* a draw of a valid texture, which does not repaint
C29_WitnessValid ==
    /\ pc = "painter"
    /\ call.name = "draw"
    /\ call.before = Valid
    /\ ~call.repainted

(***************************************************************************)
(* world::Path::paths_cascading and path_while on their own, with the      *)
(* cells, the property and the next relation World::generate_rivers hands  *)
(* over: next goes downhill, so it has no cycle, and the order (the        *)
(* ascending order of the heights, reversed) has every cell before the     *)
(* cell next leads to.                                                     *)
(***************************************************************************)
MaxCells == 3

CascadeCells == 1..MaxCells

\* the cells next leads to from c, in at most k steps, c not included
RECURSIVE Downstream(_, _, _)
Downstream(next, c, k) ==
    IF k = 0 \/ next[c] = None THEN {}
    ELSE {Unwrap(next[c])} \cup Downstream(next, Unwrap(next[c]), k - 1)

NextRelations ==
    {next \in [CascadeCells -> {None} \cup {Some(c) : c \in CascadeCells}] :
        \A c \in CascadeCells : c \notin Downstream(next, c, MaxCells)}

CascadeOrders(next) ==
    {order \in IterationOrders(CascadeCells) :
        \A i, j \in DOMAIN order :
            next[order[i]] = Some(order[j]) => i < j}

\* Path::path_while
RECURSIVE path_while(_, _, _)
path_while(cell, property, next) ==
    IF next[cell] = None THEN <<cell>>
    ELSE IF ~property[Unwrap(next[cell])] THEN <<cell>>
    ELSE <<cell>> \o path_while(Unwrap(next[cell]), property, next)

InitCascade ==
    /\ Idle
    /\ pc = "paths_cascading"
    /\ \E next \in NextRelations, property \in [CascadeCells -> BOOLEAN] :
         \E order \in CascadeOrders(next) :
            call = [name |-> "paths_cascading", property |-> property,
                    next |-> next, order |-> order, at |-> 1,
                    paths |-> <<>>, visited |-> {}]

\* a turn of the loop that does not mark the cells of the path as visited
CascadeVisitStartOnly ==
    /\ pc = "paths_cascading"
    /\ call.at <= Len(call.order)
    /\ LET cell == call.order[call.at]
       IN  call' = IF cell \in call.visited
                   THEN [call EXCEPT !.at = @ + 1]
                   ELSE IF ~call.property[cell]
                   THEN [call EXCEPT !.at = @ + 1,
                                     !.visited = @ \cup {cell}]
                   ELSE LET path == path_while(cell, call.property, call.next)
                        IN  [call EXCEPT !.at = @ + 1,
                                         !.visited = @ \cup {cell},
                                         !.paths = Append(@, path)]
    /\ UNCHANGED <<poly_map, composed, generation, previous, pc, corners, new_h,
                   changed, at, heightmap, terrain, hydrology,
                   thermology, reflows>>

\* one turn of the loop of paths_cascading over the order
CascadeVisit ==
    /\ pc = "paths_cascading"
    /\ call.at <= Len(call.order)
    /\ LET cell == call.order[call.at]
       IN  call' = IF cell \in call.visited
                   THEN [call EXCEPT !.at = @ + 1]
                   ELSE IF ~call.property[cell]
                   THEN [call EXCEPT !.at = @ + 1,
                                     !.visited = @ \cup {cell}]
                   ELSE LET path == path_while(cell, call.property, call.next)
                        IN  [call EXCEPT !.at = @ + 1,
                                         !.visited = @ \cup {cell} \cup Range(path),
                                         !.paths = Append(@, path)]
    /\ UNCHANGED <<poly_map, composed, generation, previous, pc, corners, new_h,
                   changed, at, heightmap, terrain, hydrology,
                   thermology, reflows>>

\* the order is exhausted: paths_cascading returns paths
CascadeReturn ==
    /\ pc = "paths_cascading"
    /\ call.at > Len(call.order)
    /\ pc' = "cascaded"
    /\ UNCHANGED <<call, poly_map, composed, generation, previous, corners, new_h,
                   changed, at, heightmap, terrain, hydrology,
                   thermology, reflows>>

NextCascade == CascadeVisit \/ CascadeReturn

SpecCascade == InitCascade /\ [][NextCascade]_vars /\ WF_vars(NextCascade)

\* p is the end of q
IsSuffix(p, q) ==
    /\ Len(p) <= Len(q)
    /\ \A i \in DOMAIN p : p[i] = q[Len(q) - Len(p) + i]

\* the paths made so far are as C30 has them
CascadePathsSound ==
    pc \in {"paths_cascading", "cascaded"} =>
        \A k \in DOMAIN call.paths :
            LET path == call.paths[k]
                last == path[Len(path)]
            IN  /\ path # <<>>
                /\ \A i \in DOMAIN path : call.property[path[i]]
                /\ \A i \in 1..(Len(path) - 1) :
                       call.next[path[i]] = Some(path[i + 1])
                /\ \/ call.next[last] = None
                   \/ ~call.property[Unwrap(call.next[last])]
                /\ \A j \in 1..(k - 1) : path[1] \notin Range(call.paths[j])
                /\ \A j \in DOMAIN call.paths :
                       j # k => ~IsSuffix(path, call.paths[j])

(***************************************************************************)
(* C30.  On cells ordered so that every cell comes before the cell next    *)
(* leads to, next having no cycle, paths_cascading returns, and the paths  *)
(* it returns are such that every cell of a path has the property, each    *)
(* cell is followed by the one next leads to, the last cell has no next    *)
(* cell or one without the property, and no path starts at a cell of an    *)
(* earlier path; so no path is the end of another.                         *)
(***************************************************************************)
C30_CascadingPathsAreMaximal ==
    /\ <>(pc = "cascaded")
    /\ []CascadePathsSound

\* two paths that run into the same cell and share their end, and a cell
\* with the property that starts no path, being on a path already
C30_Witness ==
    /\ pc = "cascaded"
    /\ Len(call.paths) = 2
    /\ Len(call.paths[1]) = 2
    /\ Len(call.paths[2]) = 2
    /\ call.paths[1][2] = call.paths[2][2]

\* a path of every cell, the cells after the first starting no path
C30_WitnessChain ==
    /\ pc = "cascaded"
    /\ Len(call.paths) = 1
    /\ Len(call.paths[1]) = MaxCells

(***************************************************************************)
(* C13.  Every field container of the height map, the terrain, the         *)
(* hydrology (rainfall, vertex flux, edge flux, river flags) and the       *)
(* thermology has one entry per entity of the mesh it is indexed by, once  *)
(* generate has returned and at every moment of every reflow after it.     *)
(***************************************************************************)
C13_ContainersMatchMesh ==
    LET V == DOMAIN PM.vertices
        E == DOMAIN PM.edges
        C == DOMAIN PM.cells
    IN  /\ DOMAIN heightmap.corners = V
        /\ DOMAIN heightmap.descent_vector = V
        /\ DOMAIN heightmap.cells = C
        /\ DOMAIN terrain = C
        /\ DOMAIN hydrology.corner_rainfall = V
        /\ DOMAIN hydrology.cell_rainfall = C
        /\ DOMAIN hydrology.corner_flux = V
        /\ DOMAIN hydrology.edge_flux = E
        /\ DOMAIN hydrology.rivers.edge_is_river = E
        /\ DOMAIN thermology.corner_innate_temperature = V
        /\ DOMAIN thermology.corner_temperature = V
        /\ DOMAIN thermology.cell_temperature = C

\* a reflow has completed on a mesh with different numbers of vertices,
\* edges and cells
C13_Witness ==
    /\ Done
    /\ reflows > 0
    /\ Len(PM.vertices) # Len(PM.edges)
    /\ Len(PM.edges) # Len(PM.cells)
    /\ Len(PM.cells) # Len(PM.vertices)
    /\ hydrology # previous.hydrology
    /\ thermology # previous.thermology

(***************************************************************************)
(* Mesh construction on its own: build_elements, one cell polygon at a     *)
(* time, over planar subdivisions of the map rectangle.  The polygons come *)
(* from the Voronoi crate, so each ring may run in either direction and    *)
(* start at any of its points.                                             *)
(***************************************************************************)
MidX == MapWidth \div 2
MidY == MapHeight \div 2

\* four squares around the centre
QuadrantPolygons ==
    << << <<0, 0>>, <<MidX, 0>>, <<MidX, MidY>>, <<0, MidY>> >>,
       << <<MidX, 0>>, <<MapWidth, 0>>, <<MapWidth, MidY>>, <<MidX, MidY>> >>,
       << <<0, MidY>>, <<MidX, MidY>>, <<MidX, MapHeight>>, <<0, MapHeight>> >>,
       << <<MidX, MidY>>, <<MapWidth, MidY>>, <<MapWidth, MapHeight>>, <<MidX, MapHeight>> >> >>

\* two triangles along the diagonal
DiagonalPolygons ==
    << << <<0, 0>>, <<MapWidth, 0>>, <<MapWidth, MapHeight>> >>,
       << <<0, 0>>, <<MapWidth, MapHeight>>, <<0, MapHeight>> >> >>

\* four triangles from the centre to the corners of the map
PinwheelPolygons ==
    << << <<0, 0>>, <<MapWidth, 0>>, <<MidX, MidY>> >>,
       << <<MapWidth, 0>>, <<MapWidth, MapHeight>>, <<MidX, MidY>> >>,
       << <<MapWidth, MapHeight>>, <<0, MapHeight>>, <<MidX, MidY>> >>,
       << <<0, MapHeight>>, <<0, 0>>, <<MidX, MidY>> >> >>

\* three cells around an interior vertex of degree three
TriplePolygons ==
    << << <<0, 0>>, <<MidX, 0>>, <<MidX, MidY>>, <<0, MapHeight>> >>,
       << <<MidX, 0>>, <<MapWidth, 0>>, <<MapWidth, MapHeight>>, <<MidX, MidY>> >>,
       << <<0, MapHeight>>, <<MidX, MidY>>, <<MapWidth, MapHeight>> >> >>

Subdivisions == {QuadrantPolygons, DiagonalPolygons, PinwheelPolygons, TriplePolygons}

Reverse(s) == [i \in DOMAIN s |-> s[Len(s) + 1 - i]]
Rotate(s, k) == [i \in DOMAIN s |-> s[((i + k - 1) % Len(s)) + 1]]

\* the same subdivision with each ring in a direction and from a start point
Traversals(polygons) ==
    {[c \in DOMAIN polygons |->
         Rotate(IF rev[c] THEN Reverse(polygons[c]) ELSE polygons[c], rot[c])] :
       rev \in [DOMAIN polygons -> BOOLEAN], rot \in [DOMAIN polygons -> 0..1]}

NoElements ==
    [vertices |-> <<>>, edges |-> <<>>, cells |-> <<>>, edges_lookup |-> <<>>,
     cell_edges |-> <<>>, cell_corners |-> <<>>, ret |-> 0]

InitMesh ==
    /\ Idle
    /\ pc = "build_elements"
    /\ \E polygons \in UNION {Traversals(p) : p \in Subdivisions} :
           call = [name |-> "build_elements", polygons |-> polygons,
                   st |-> NoElements, cell_id |-> 1]

\* one turn of the loop over the polygons; ArrayVec::push on an edge that
\* already has two cells panics
BuildPolygon ==
    /\ pc = "build_elements"
    /\ call.cell_id <= Len(call.polygons)
    /\ LET s0 == [call.st EXCEPT !.cell_edges = <<>>, !.cell_corners = <<>>]
           s1 == AddLines(s0, call.cell_id, PolygonLines(call.polygons[call.cell_id]),
                          1, MapWidth, MapHeight)
       IN  IF \E e \in DOMAIN s1.edges : Len(s1.edges[e].cells) > 2
           THEN pc' = "build_elements_panic" /\ call' = call
           ELSE /\ call' = [call EXCEPT
                    !.st = [s1 EXCEPT !.cells =
                               Append(@, CellNew(call.polygons[call.cell_id],
                                                 s1.cell_edges, s1.cell_corners))],
                    !.cell_id = @ + 1]
                /\ pc' = pc
    /\ UNCHANGED <<poly_map, composed, generation, previous, corners, new_h,
                   changed, at, heightmap, terrain, hydrology,
                   thermology, reflows>>

\* build_elements returns and PolyMap::new completes the mesh
BuildElementsReturn ==
    /\ pc = "build_elements"
    /\ call.cell_id > Len(call.polygons)
    /\ poly_map' = PolyMapOf(call.st, MapWidth, MapHeight)
    /\ pc' = "mesh"
    /\ UNCHANGED <<call, composed, generation, previous, corners, new_h,
                   changed, at, heightmap, terrain, hydrology,
                   thermology, reflows>>

NextMesh == BuildPolygon \/ BuildElementsReturn

SpecMesh == InitMesh /\ [][NextMesh]_vars

\* the edge lies on the rectangle of the map
OnMapBoundary(e) ==
    LET a == PM.vertices[EdgeStart(PM.edges[e])].coords
        b == PM.vertices[EdgeEnd(PM.edges[e])].coords
    IN  \/ a[1] = 0 /\ b[1] = 0
        \/ a[1] = MapWidth /\ b[1] = MapWidth
        \/ a[2] = 0 /\ b[2] = 0
        \/ a[2] = MapHeight /\ b[2] = MapHeight

(***************************************************************************)
(* C12.  After build_elements over the cell polygons of a planar           *)
(* subdivision of the rectangle, construction has not panicked on a third  *)
(* owning cell, every edge has one owning cell or two distinct ones, and   *)
(* it has one only when it lies on the boundary of the map.                *)
(***************************************************************************)
C12_EdgeHasOneOrTwoCells ==
    /\ pc # "build_elements_panic"
    /\ pc = "mesh" =>
         \A e \in DOMAIN PM.edges :
            LET cells == PM.edges[e].cells
            IN  /\ Len(cells) \in {1, 2}
                /\ Len(cells) = 2 => cells[1] # cells[2]
                /\ Len(cells) = 1 => OnMapBoundary(e)

\* a mesh with boundary edges of one cell and interior edges of two, some
\* of them met against their first direction
C12_Witness ==
    /\ pc = "mesh"
    /\ \E e \in DOMAIN PM.edges : Len(PM.edges[e].cells) = 1
    /\ \E e \in DOMAIN PM.edges :
          /\ Len(PM.edges[e].cells) = 2
          /\ ~OnMapBoundary(e)
          /\ \E c \in DOMAIN call.polygons : \E i \in DOMAIN call.polygons[c] :
                LET line == PolygonLines(call.polygons[c])[i]
                IN  /\ line[1] = PM.vertices[EdgeEnd(PM.edges[e])].coords
                    /\ line[2] = PM.vertices[EdgeStart(PM.edges[e])].coords

\* cell c of the mesh under construction goes along the line from a to b
GoesAlong(c, a, b) ==
    \E i \in DOMAIN call.polygons[c] :
        PolygonLines(call.polygons[c])[i] = <<a, b>>

(***************************************************************************)
(* C16.  Mesh construction never holds two Vertex records with the same    *)
(* coordinates nor two Edge records with the same pair of endpoints: each  *)
(* line of a cell's polygon, in whichever direction the cell goes along    *)
(* it, is the one Edge between the one Vertex of each of its two points,   *)
(* so cells that share a point or a line refer to the same id.             *)
(***************************************************************************)
C16_SharedElementsHaveOneId ==
    pc \in {"build_elements", "mesh"} =>
        LET st == call.st
        IN  /\ \A i, j \in DOMAIN st.vertices :
                  st.vertices[i].coords = st.vertices[j].coords => i = j
            /\ \A i, j \in DOMAIN st.edges :
                  st.edges[i].endpoints = st.edges[j].endpoints => i = j
            /\ \A c \in DOMAIN st.cells : \A k \in DOMAIN call.polygons[c] :
                  LET line == PolygonLines(call.polygons[c])[k]
                  IN  \E e \in Range(st.cells[c].edges) :
                         /\ {st.vertices[EdgeStart(st.edges[e])].coords,
                             st.vertices[EdgeEnd(st.edges[e])].coords}
                                = {line[1], line[2]}
                         /\ Contains(st.edges[e].cells, c)
                         /\ Contains(st.cells[c].corners, EdgeStart(st.edges[e]))
                         /\ Contains(st.cells[c].corners, EdgeEnd(st.edges[e]))

\* a finished mesh where one shared edge is met in opposite directions by
\* its two cells and another in the same direction by both, and a vertex is
\* shared by three cells
C16_Witness ==
    /\ pc = "mesh"
    /\ \E e \in DOMAIN PM.edges :
          LET a == PM.vertices[EdgeStart(PM.edges[e])].coords
              b == PM.vertices[EdgeEnd(PM.edges[e])].coords
          IN  /\ Len(PM.edges[e].cells) = 2
              /\ GoesAlong(PM.edges[e].cells[1], a, b)
              /\ GoesAlong(PM.edges[e].cells[2], b, a)
    /\ \E e \in DOMAIN PM.edges :
          LET a == PM.vertices[EdgeStart(PM.edges[e])].coords
              b == PM.vertices[EdgeEnd(PM.edges[e])].coords
          IN  /\ Len(PM.edges[e].cells) = 2
              /\ \/ GoesAlong(PM.edges[e].cells[1], a, b)
                    /\ GoesAlong(PM.edges[e].cells[2], a, b)
                 \/ GoesAlong(PM.edges[e].cells[1], b, a)
                    /\ GoesAlong(PM.edges[e].cells[2], b, a)
    /\ \E v \in DOMAIN PM.vertices : Cardinality(VertexCells(PM, v)) >= 3

\* v is on the list of neighbors of u
IsNeighbor(u, v) == Contains(PM.vertices[u].neighbors, v)

\* some edge between u and v is on the list of edges of both
SharedEdge(u, v) ==
    \E e \in DOMAIN PM.edges :
        /\ {EdgeStart(PM.edges[e]), EdgeEnd(PM.edges[e])} = {u, v}
        /\ Contains(PM.vertices[u].edges, e)
        /\ Contains(PM.vertices[v].edges, e)

(***************************************************************************)
(* C24.  After mesh construction the adjacency of the vertices is          *)
(* symmetric and agrees with the edges: v is a neighbor of u exactly when  *)
(* u is a neighbor of v, and exactly when some edge has the endpoints u    *)
(* and v and is on the list of edges of both; no list of neighbors holds a *)
(* vertex twice.                                                           *)
(***************************************************************************)
C24_AdjacencyMatchesEdges ==
    pc = "mesh" =>
        /\ \A u, v \in DOMAIN PM.vertices :
               /\ IsNeighbor(u, v) <=> IsNeighbor(v, u)
               /\ IsNeighbor(u, v) <=> SharedEdge(u, v)
        /\ \A u \in DOMAIN PM.vertices :
               \A i, j \in DOMAIN PM.vertices[u].neighbors :
                   PM.vertices[u].neighbors[i] = PM.vertices[u].neighbors[j]
                       => i = j

\* a finished mesh with a vertex of four neighbors, reached by as many
\* edges, and two vertices that are not neighbors
C24_Witness ==
    /\ pc = "mesh"
    /\ \E u \in DOMAIN PM.vertices :
           /\ Len(PM.vertices[u].neighbors) >= 4
           /\ Len(PM.vertices[u].edges) = Len(PM.vertices[u].neighbors)
    /\ \E u, v \in DOMAIN PM.vertices :
           u # v /\ ~IsNeighbor(u, v) /\ ~SharedEdge(u, v)

(***************************************************************************)
(* C11.  After generate and any number of reflow_rivers calls every        *)
(* derived layer is the one a derivation from scratch gives on the current *)
(* heightmap and the retained innate rainfall and temperature: the terrain *)
(* is the lookup of the current cell heights, and the flux, the river      *)
(* flags and paths and the temperatures are recomputed; nothing computed   *)
(* before the reflow survives.                                             *)
(***************************************************************************)
C11_ReflowLeavesLayersConsistent ==
    Done =>
        /\ heightmap = HeightMapOf(PM, heightmap.corners)
        /\ \A c \in Cells : terrain[c] = from_height(heightmap.cells[c])
        /\ \E sources \in IterationOrders(SourcesOf(PM, heightmap, terrain,
                                                   hydrology.min_river_flux,
                                                   hydrology.corner_rainfall)) :
               hydrology = HydrologyRecompute(PM, heightmap, terrain,
                                              hydrology.min_river_flux,
                                              hydrology.corner_rainfall, sources)
        /\ thermology = ThermologyRecompute(PM, heightmap, terrain,
                                            thermology.corner_innate_temperature)
        /\ reflows > 0 =>
               /\ hydrology.corner_rainfall = previous.hydrology.corner_rainfall
               /\ hydrology.min_river_flux = previous.hydrology.min_river_flux
               /\ thermology.corner_innate_temperature
                      = previous.thermology.corner_innate_temperature

\* a second reflow has changed the heights, the terrain, the flux, the river
\* paths and the temperatures
C11_Witness ==
    /\ Done
    /\ reflows = 2
    /\ heightmap.corners # previous.heightmap.corners
    /\ terrain # previous.terrain
    /\ hydrology.corner_flux # previous.hydrology.corner_flux
    /\ hydrology.rivers.edge_is_river # previous.hydrology.rivers.edge_is_river
    /\ hydrology.rivers.paths # previous.hydrology.rivers.paths
    /\ thermology.corner_temperature # previous.thermology.corner_temperature

Next ==
    \/ PDStart
    \/ PDVisit
    \/ PDSweepAgain
    \/ BuildFinish
    \/ AssignTerrain
    \/ HydrologyBuild
    \/ ThermologyBuild

Spec == Init /\ [][Next]_vars

NextTwice == Next \/ GenerateAgain

SpecTwice == Init /\ [][NextTwice]_vars
====
